---- MODULE Spec2Model ----
(***************************************************************************)
(* The federation core of the MCP gateway: the catalogue manager           *)
(* (MCPServerManager: health probe, tools/list discovery, per-server       *)
(* cache with TTL, tools_by_id), the index engine (ToolRetrievalManager:   *)
(* full build, change detection by version hash, incremental refresh,      *)
(* search) and the document store (MongoDBClient), against a changing      *)
(* upstream fleet.                                                         *)
(*                                                                         *)
(* Every handler is one action.  The upstream fleet is the environment:    *)
(* per server the outcome of the health probe, whether tools/list          *)
(* answers, and the listing it answers with.  Both declared servers use    *)
(* the plain "http" dialect (the default of load_config).                  *)
(***************************************************************************)
EXTENDS Integers, Sequences, FiniteSets, TLC

\* ---------------------------------------------------------------- bounds
MaxEnvChanges == 1      \* upstream changes in one run
TickSeconds == 1800     \* seconds that pass in one clock tick

\* ------------------------------------------------------ program constants
CacheTTL == 3600        \* self.cache_ttl = timedelta(seconds=3600)

Servers == {"A", "B"}                   \* ids declared in mcpServers
OldServer == "Z"                        \* an id of an earlier configuration
ToolNames == {"read_file", "get_time"}
Descriptions == {"d1", "d2"}
TopKs == {1, 3}
Volatile == {"A"}                       \* servers whose tools/list changes
None == "None"

\* the age from which a cache entry is expired whatever its age
Expired == (CacheTTL + TickSeconds - 1) \div TickSeconds

VARIABLES
    phase,              \* "new" -> "constructed" -> "started"
    health,             \* upstream: GET <url>/health answers 200
    listOk,             \* upstream: tools/list answers with a result
    upstream,           \* upstream: the tools a server lists
    envChanges,         \* number of upstream changes so far
    category,           \* MCPServer.category per server
    tags,               \* MCPServer.tags per server
    tools,              \* MCPServerManager.tools : tool_key -> ToolInfo
    tools_cache,        \* MCPServerManager.tools_cache : server_id -> list
    cache_timestamps,   \* MCPServerManager.cache_timestamps, each kept as the
                        \* ticks elapsed since it was written (now - timestamp)
    store,              \* the collection: tool_id -> document
    last,               \* the last handler that ran, its inputs and result
    servers,            \* MCPServerManager.servers : server_id -> MCPServer
    up,                 \* upstream: how it answers a bootstrap and which
                        \* session it accepts
    hist,               \* what has been exchanged with the upstream so far
    call,               \* the last handler of the session layer, the requests
                        \* it sent and what it returned
    config,             \* the mcpServers entries of the configuration file
    pc,                 \* the position of each thread in the handler it runs
    refresher           \* ToolRetrievalManager._stop_refresh and
                        \* _refresh_thread

vars == <<phase, health, listOk, upstream, envChanges, category, tags,
          tools, tools_cache, cache_timestamps, store, last,
          servers, up, hist, call, config, pc, refresher>>

\* the variables of the session layer, of load_config and of the threads
auxVars == <<servers, up, hist, call, config, pc, refresher>>

envVars == <<health, listOk, upstream, envChanges>>
mgrVars == <<tools, tools_cache, cache_timestamps>>

\* ------------------------------------------------------------- helpers
EmptyMap == [x \in {} |-> None]

Without(f, k) == [x \in DOMAIN f \ {k} |-> f[x]]

Put(f, k, v) == [x \in DOMAIN f \cup {k} |-> IF x = k THEN v ELSE f[x]]

Range(seq) == {seq[i] : i \in 1..Len(seq)}

RECURSIVE Flatten(_, _)
\* all_tools.extend(tools_list) over the values of a discovery result
Flatten(ret, ss) ==
    IF ss = {} THEN <<>>
    ELSE LET s == CHOOSE x \in ss : TRUE
         IN  ret[s] \o Flatten(ret, ss \ {s})

\* f"{server_id}:{tool_name}"
ToolKey(server_id, tool_name) == server_id \o ":" \o tool_name

\* tool_id.split(":", 1), for ids and names that hold no ":"
SplitToolId(tool_id) ==
    CHOOSE p \in (Servers \cup {OldServer}) \X ToolNames : ToolKey(p[1], p[2]) = tool_id

\* ---------------------------------------------------- catalogue manager
\* check_server_health, plain dialect: GET <url>/health, 200 is healthy
CheckServerHealth(s) == s \in Servers /\ health[s]

\* a validity test that still accepts an entry exactly cache_ttl old
IsCacheValidInclusive(ts, s) ==
    s \in DOMAIN ts /\ ts[s] * TickSeconds <= CacheTTL

\* _is_cache_valid: datetime.now() - cache_timestamps[s] < cache_ttl,
\* ts[s] being the ticks elapsed since the entry was written
IsCacheValid(ts, s) ==
    s \in DOMAIN ts /\ ts[s] * TickSeconds < CacheTTL

\* _get_tools_from_cache
GetToolsFromCache(cache, s) == IF s \in DOMAIN cache THEN cache[s] ELSE <<>>

\* an eviction that forgets the timestamp but keeps the tool list
ClearCacheTimestampOnly(st, s) ==
    [st EXCEPT !.cache_timestamps = Without(@, s)]

\* _clear_cache
ClearCache(st, s) ==
    [st EXCEPT !.tools_cache = Without(@, s), !.cache_timestamps = Without(@, s)]

\* _update_cache
UpdateCache(st, s, tl) ==
    [st EXCEPT !.tools_cache = Put(@, s, tl), !.cache_timestamps = Put(@, s, 0)]

\* the ToolInfo built from one entry of the tools/list reply
MakeToolInfo(s, tool_data) ==
    [name |-> tool_data.name, description |-> tool_data.description,
     server_id |-> s, category |-> category[s], tags |-> tags[s]]

\* the list of ToolInfo built from the reply
ParseTools(s) == [i \in 1..Len(upstream[s]) |-> MakeToolInfo(s, upstream[s][i])]

\* self.tools[tool_key] = tool_info for each listed tool, in order: a later
\* entry of the same name overwrites an earlier one, nothing is removed
RegisterTools(tl, s, t) ==
    LET keys == {ToolKey(s, tl[i].name) : i \in 1..Len(tl)}
        lastOf(k) == CHOOSE i \in 1..Len(tl) :
                        /\ ToolKey(s, tl[i].name) = k
                        /\ \A j \in (i+1)..Len(tl) : ToolKey(s, tl[j].name) # k
    IN  [k \in DOMAIN t \cup keys |-> IF k \in keys THEN tl[lastOf(k)] ELSE t[k]]

\* _discover_tools_from_server on a tools/list that answers
DiscoverToolsFromServer(st, s) ==
    [st EXCEPT !.tools = RegisterTools(ParseTools(s), s, @),
               !.ret = Put(@, s, ParseTools(s)),
               !.listed = @ \cup {s}]

\* the body of the loop of discover_tools for one server
DiscoverOne(st, s, force_refresh) ==
    IF ~CheckServerHealth(s) THEN ClearCache(st, s)
    ELSE IF ~force_refresh /\ IsCacheValid(st.cache_timestamps, s)
         THEN [st EXCEPT !.ret = Put(@, s, GetToolsFromCache(st.tools_cache, s))]
    ELSE IF listOk[s]
         THEN LET d == DiscoverToolsFromServer(st, s)
              IN  UpdateCache(d, s, d.ret[s])
    ELSE \* except Exception: logged, nothing else
         [st EXCEPT !.listed = @ \cup {s}]

RECURSIVE DiscoverLoop(_, _, _)
DiscoverLoop(st, ss, force_refresh) ==
    IF ss = {} THEN st
    ELSE LET s == CHOOSE x \in ss : TRUE
         IN  DiscoverLoop(DiscoverOne(st, s, force_refresh), ss \ {s}, force_refresh)

\* the manager's maps as a record, with the result of the call still empty
MgrState == [tools |-> tools, tools_cache |-> tools_cache,
             cache_timestamps |-> cache_timestamps,
             ret |-> EmptyMap, listed |-> {}]

Fresh(st) == [st EXCEPT !.ret = EmptyMap, !.listed = {}]

\* discover_tools(server_id, force_refresh); server_id = None targets all
DiscoverTools(st, server_id, force_refresh) ==
    IF server_id # None
    THEN IF server_id \in Servers
         THEN DiscoverLoop(Fresh(st), {server_id}, force_refresh)
         ELSE Fresh(st)
    ELSE DiscoverLoop(Fresh(st), Servers, force_refresh)

\* get_tool
GetTool(server_id, tool_name) ==
    IF ToolKey(server_id, tool_name) \in DOMAIN tools
    THEN {tools[ToolKey(server_id, tool_name)]} ELSE {}

\* _auto_discover_server_metadata: the category of the first keyword found
\* in the names of the discovered tools ("file"/"read" before "time")
InferCategory(tl) ==
    IF \E i \in 1..Len(tl) : tl[i].name = "read_file" THEN "file_operations"
    ELSE IF \E i \in 1..Len(tl) : tl[i].name = "get_time" THEN "system"
    ELSE None

\* the parts of the tool names longer than two letters that are no common verb
InferTags(tl) ==
    UNION {IF tl[i].name = "read_file" THEN {"read", "file"} ELSE {"time"} :
           i \in 1..Len(tl)}

\* --------------------------------------------------------- document store
\* get_tool_versions: {} when the store cannot be read
GetToolVersions(col, ok) ==
    IF ok THEN [id \in DOMAIN col |-> col[id].tool_version] ELSE EmptyMap

\* a delete that reports success and deletes nothing
DeleteToolKeeps(col, tool_id, ok) ==
    [col |-> col, deleted |-> ok /\ tool_id \in DOMAIN col]

\* delete_tool: the collection after it, and whether a document was deleted
DeleteTool(col, tool_id, ok) ==
    IF ok /\ tool_id \in DOMAIN col
    THEN [col |-> Without(col, tool_id), deleted |-> TRUE]
    ELSE [col |-> col, deleted |-> FALSE]

\* a clear that deletes nothing
ClearIndexKeeps(col, ok) == col

\* clear_index: delete_many({}), an error is logged
ClearIndex(col, ok) == IF ok THEN EmptyMap ELSE col

RECURSIVE BulkWrite(_, _)
\* collection.bulk_write of one UpdateOne({tool_id}, {$set: doc}, upsert) per
\* document: a document whose tool_id is absent is upserted, one whose
\* tool_id is present is matched, and modified too since $set carries a new
\* indexed_at
BulkWrite(col, docs) ==
    IF docs = <<>>
    THEN [col |-> col, upserted_count |-> 0, modified_count |-> 0, matched_count |-> 0]
    ELSE LET doc == Head(docs)
             hit == doc.tool_id \in DOMAIN col
             rest == BulkWrite(Put(col, doc.tool_id, doc), Tail(docs))
         IN  [col |-> rest.col,
              upserted_count |-> rest.upserted_count + (IF hit THEN 0 ELSE 1),
              modified_count |-> rest.modified_count + (IF hit THEN 1 ELSE 0),
              matched_count |-> rest.matched_count + (IF hit THEN 1 ELSE 0)]

\* what index_tools_batch adds up as the number of documents indexed
SuccessCount(result) ==
    result.upserted_count + result.modified_count + result.matched_count

\* index_tools_batch: the collection after it and the count it returns
IndexToolsBatch(col, tool_docs, ok) ==
    IF tool_docs = <<>> THEN [col |-> col, success_count |-> 0]
    ELSE IF ~ok THEN [col |-> col, success_count |-> 0]
    ELSE LET result == BulkWrite(col, tool_docs)
         IN  [col |-> result.col, success_count |-> SuccessCount(result)]

\* ------------------------------------------------------------ index engine
\* _generate_tool_version: the hash of (name, description, parameters,
\* server_id, category, sorted tags), kept as the tuple that is hashed
GenerateToolVersion(tool_info) ==
    <<tool_info.name, tool_info.description, tool_info.server_id,
      tool_info.category, tool_info.tags>>

\* _generate_server_version
GenerateServerVersion(s) == <<s, category[s], tags[s]>>

\* _build_search_text: the values of the labelled lines
BuildSearchText(tool_info, s) ==
    {tool_info.name, tool_info.description, s}
        \cup (IF tool_info.category # None THEN {tool_info.category} ELSE {})
        \cup tool_info.tags

\* _build_tool_document
BuildToolDocument(tool_info) ==
    LET s == tool_info.server_id
    IN  [tool_id |-> ToolKey(tool_info.server_id, tool_info.name),
         tool_name |-> tool_info.name,
         tool_description |-> tool_info.description,
         server_id |-> tool_info.server_id,
         category |-> IF tool_info.category # None THEN tool_info.category
                      ELSE category[s],
         tags |-> IF tool_info.tags # {} THEN tool_info.tags ELSE tags[s],
         search_text |-> BuildSearchText(tool_info, s),
         tool_version |-> GenerateToolVersion(tool_info),
         server_version |-> GenerateServerVersion(s)]

\* the tool_id of a ToolInfo
ToolId(tool_info) == ToolKey(tool_info.server_id, tool_info.name)

\* current_map / all_tools_map: tool_id -> the last ToolInfo of that id
ToolsMap(tl) ==
    LET lastOf(k) == CHOOSE i \in 1..Len(tl) :
                        /\ ToolId(tl[i]) = k
                        /\ \A j \in (i+1)..Len(tl) : ToolId(tl[j]) # k
    IN  [k \in {ToolId(tl[i]) : i \in 1..Len(tl)} |-> tl[lastOf(k)]]

\* detect_tool_changes, given the tools discovered and the indexed versions
DetectToolChanges(current_tools, indexed_versions) ==
    LET current_map == [k \in DOMAIN ToolsMap(current_tools) |->
                           GenerateToolVersion(ToolsMap(current_tools)[k])]
    IN  [added |-> {k \in DOMAIN current_map : k \notin DOMAIN indexed_versions},
         updated |-> {k \in DOMAIN current_map :
                        /\ k \in DOMAIN indexed_versions
                        /\ indexed_versions[k] # current_map[k]},
         unchanged |-> {k \in DOMAIN current_map :
                        /\ k \in DOMAIN indexed_versions
                        /\ indexed_versions[k] = current_map[k]},
         removed |-> {k \in DOMAIN indexed_versions : k \notin DOMAIN current_map}]

RECURSIVE DeleteAll(_, _, _)
\* for tool_id in changes["removed"]: delete_tool, counting the successes
DeleteAll(col, ids, ok) ==
    IF ids = {} THEN [col |-> col, removed |-> 0]
    ELSE LET id == CHOOSE x \in ids : TRUE
             one == DeleteTool(col, id, ok)
             rest == DeleteAll(one.col, ids \ {id}, ok)
         IN  [col |-> rest.col,
              removed |-> rest.removed + (IF one.deleted THEN 1 ELSE 0)]

RECURSIVE DocsOf(_, _)
\* the documents built for the ids of tools_to_update found in all_tools_map
DocsOf(ids, all_tools_map) ==
    IF ids = {} THEN <<>>
    ELSE LET id == CHOOSE x \in ids : TRUE
         IN  (IF id \in DOMAIN all_tools_map
              THEN <<BuildToolDocument(all_tools_map[id])>> ELSE <<>>)
             \o DocsOf(ids \ {id}, all_tools_map)

\* the counts refresh_index_incremental reports after the batch write
BatchStats(stats, changes, success_count) ==
    [stats EXCEPT !.added = Cardinality(changes.added),
                  !.updated = success_count - Cardinality(changes.added)]

\* refresh_index_incremental: the manager's maps, the collection and the
\* counts after it
RefreshIndexIncremental(st, col, ok) ==
    LET d1 == DiscoverTools(st, None, FALSE)
        changes == DetectToolChanges(Flatten(d1.ret, DOMAIN d1.ret),
                                     GetToolVersions(col, ok))
        stats0 == [added |-> 0, updated |-> 0, removed |-> 0,
                   unchanged |-> Cardinality(changes.unchanged)]
        del == DeleteAll(col, changes.removed, ok)
        stats1 == [stats0 EXCEPT !.removed = del.removed]
        tools_to_update == changes.added \cup changes.updated
        d2 == DiscoverTools(d1, None, FALSE)
        tool_docs == DocsOf(tools_to_update,
                            ToolsMap(Flatten(d2.ret, DOMAIN d2.ret)))
        batch == IndexToolsBatch(del.col, tool_docs, ok)
    IN  IF tools_to_update = {}
        THEN [mgr |-> d1, ret |-> d1.ret, listed |-> d1.listed, col |-> del.col,
              changes |-> changes, stats |-> stats1]
        ELSE [mgr |-> d2, ret |-> d1.ret, listed |-> d1.listed \cup d2.listed,
              col |-> batch.col, changes |-> changes,
              stats |-> IF tool_docs = <<>> THEN stats1
                        ELSE BatchStats(stats1, changes, batch.success_count)]

\* build_index: the manager's maps, the collection and the count after it
BuildIndex(st, col, ok) ==
    LET d == DiscoverTools(st, None, TRUE)
        all_tools_info == Flatten(d.ret, DOMAIN d.ret)
        tool_docs == [i \in 1..Len(all_tools_info) |->
                         BuildToolDocument(all_tools_info[i])]
        batch == IndexToolsBatch(col, tool_docs, ok)
    IN  IF all_tools_info = <<>>
        THEN [mgr |-> d, col |-> col, count |-> 0]
        ELSE [mgr |-> d, col |-> batch.col, count |-> batch.success_count]

\* the filter of search_tools: the query is part of the name, of the
\* description or of the search text
Matches(query, doc) ==
    \/ query = doc.tool_name
    \/ query = doc.tool_description
    \/ query \in doc.search_text

\* the ToolInfo search_tools resolves the documents it kept to
Resolve(results) ==
    UNION {GetTool(SplitToolId(doc.tool_id)[1], SplitToolId(doc.tool_id)[2]) :
           doc \in results}

\* ------------------------------------------------------------- the record
\* of the last handler: its name and inputs, what it returned, the servers
\* it sent a discovery tools/list to, and the cache and the tool_ids of the
\* collection as they were when it started
NoStats == [added |-> 0, updated |-> 0, removed |-> 0, unchanged |-> 0]
NoChanges == [added |-> {}, updated |-> {}, removed |-> {}, unchanged |-> {}]

Idle == [op |-> "none", server |-> None, force |-> FALSE, ret |-> EmptyMap,
         listed |-> {}, stats |-> NoStats, changes |-> NoChanges,
         storeOk |-> TRUE, count |-> 0, found |-> {},
         query |-> None, top_k |-> 0,
         pre |-> [tools_cache |-> EmptyMap, cache_timestamps |-> EmptyMap,
                  store |-> EmptyMap]]

Pre == [tools_cache |-> tools_cache, cache_timestamps |-> cache_timestamps,
        store |-> store]

\* ---------------------------------------------------------------- Init
Tool(n, d) == [name |-> n, description |-> d]

\* what each upstream lists when the gateway is started
InitListing(s) ==
    IF s = "A" THEN <<Tool("read_file", "d1")>> ELSE <<Tool("get_time", "d1")>>

\* a document left in the collection by an earlier configuration
OldDoc == [tool_id |-> ToolKey(OldServer, "read_file"), tool_name |-> "read_file",
           tool_description |-> "d1", server_id |-> OldServer,
           category |-> None, tags |-> {}, search_text |-> {"read_file", OldServer},
           tool_version |-> <<"read_file", "d1", OldServer, None, {}>>,
           server_version |-> <<OldServer, None, {}>>]

Init ==
    /\ phase = "new"
    /\ health = [s \in Servers |-> TRUE]
    /\ listOk = [s \in Servers |-> TRUE]
    /\ upstream = [s \in Servers |-> InitListing(s)]
    /\ envChanges = 0
    /\ category = [s \in Servers |-> None]
    /\ tags = [s \in Servers |-> {}]
    /\ tools = EmptyMap
    /\ tools_cache = EmptyMap
    /\ cache_timestamps = EmptyMap
    /\ store = [k \in {OldDoc.tool_id} |-> OldDoc]
    /\ last = Idle
    /\ servers = EmptyMap
    /\ up = None
    /\ hist = None
    /\ call = None
    /\ config = <<>>
    /\ pc = EmptyMap
    /\ refresher = None

\* ------------------------------------------------------------ environment
EnvStep ==
    /\ envChanges < MaxEnvChanges
    /\ envChanges' = envChanges + 1
    /\ last' = Idle
    /\ UNCHANGED <<phase, category, tags, mgrVars, store, auxVars>>

\* a server goes down or comes back
SetHealth(s) ==
    /\ EnvStep
    /\ health' = [health EXCEPT ![s] = ~@]
    /\ UNCHANGED <<listOk, upstream>>

\* tools/list starts or stops failing
SetListOk(s) ==
    /\ EnvStep
    /\ listOk' = [listOk EXCEPT ![s] = ~@]
    /\ UNCHANGED <<health, upstream>>

\* an upstream lists a new tool
UpstreamAddTool(s, n) ==
    /\ EnvStep
    /\ \A i \in 1..Len(upstream[s]) : upstream[s][i].name # n
    /\ upstream' = [upstream EXCEPT ![s] = Append(@, Tool(n, "d1"))]
    /\ UNCHANGED <<health, listOk>>

\* an upstream stops listing a tool
UpstreamRemoveTool(s, i) ==
    /\ EnvStep
    /\ i \in 1..Len(upstream[s])
    /\ upstream' = [upstream EXCEPT ![s] =
                      SubSeq(@, 1, i - 1) \o SubSeq(@, i + 1, Len(@))]
    /\ UNCHANGED <<health, listOk>>

\* an upstream changes the description of a tool
UpstreamChangeDescription(s, i, d) ==
    /\ EnvStep
    /\ i \in 1..Len(upstream[s])
    /\ upstream[s][i].description # d
    /\ upstream' = [upstream EXCEPT ![s][i].description = d]
    /\ UNCHANGED <<health, listOk>>

\* time passes: every cache entry grows one tick older
Tick ==
    /\ \E s \in DOMAIN cache_timestamps : cache_timestamps[s] < Expired
    /\ cache_timestamps' = [s \in DOMAIN cache_timestamps |->
                              IF cache_timestamps[s] < Expired
                              THEN cache_timestamps[s] + 1 ELSE Expired]
    /\ last' = Idle
    /\ UNCHANGED <<phase, envVars, category, tags, tools, tools_cache, store, auxVars>>

\* ---------------------------------------------------------------- handlers
\* MCPServerManager.__init__ after load_config and _initialize_sessions:
\* _auto_discover_server_metadata
Construct ==
    /\ phase = "new"
    /\ LET d == DiscoverTools(MgrState, None, FALSE)
           inferred(s) == s \in DOMAIN d.ret /\ Len(d.ret[s]) > 0
       IN  /\ tools' = d.tools
           /\ tools_cache' = d.tools_cache
           /\ cache_timestamps' = d.cache_timestamps
           /\ category' = [s \in Servers |->
                             IF inferred(s) THEN InferCategory(d.ret[s]) ELSE category[s]]
           /\ tags' = [s \in Servers |->
                         IF inferred(s) THEN InferTags(d.ret[s]) ELSE tags[s]]
           /\ last' = [Idle EXCEPT !.op = "construct", !.ret = d.ret,
                                   !.listed = d.listed, !.pre = Pre]
    /\ phase' = "constructed"
    /\ UNCHANGED <<envVars, store, auxVars>>

\* discover_tools called by a client of the manager
Discover(server_id, force_refresh) ==
    /\ phase # "new"
    /\ LET d == DiscoverTools(MgrState, server_id, force_refresh)
       IN  /\ tools' = d.tools
           /\ tools_cache' = d.tools_cache
           /\ cache_timestamps' = d.cache_timestamps
           /\ last' = [Idle EXCEPT !.op = "discover", !.server = server_id,
                                   !.force = force_refresh, !.ret = d.ret,
                                   !.listed = d.listed, !.pre = Pre]
    /\ UNCHANGED <<phase, envVars, category, tags, store, auxVars>>

\* create_agent_graph: clear_index, then build_index
Startup(ok) ==
    /\ phase = "constructed"
    /\ LET b == BuildIndex(MgrState, ClearIndex(store, ok), ok)
       IN  /\ tools' = b.mgr.tools
           /\ tools_cache' = b.mgr.tools_cache
           /\ cache_timestamps' = b.mgr.cache_timestamps
           /\ store' = b.col
           /\ last' = [Idle EXCEPT !.op = "startup", !.force = TRUE,
                                   !.ret = b.mgr.ret, !.listed = b.mgr.listed,
                                   !.pre = Pre, !.storeOk = ok,
                                   !.count = b.count]
    /\ phase' = "started"
    /\ UNCHANGED <<envVars, category, tags, auxVars>>

\* refresh_index_incremental: what the call does to the manager, the store
\* and the record of the last handler
RefreshCall(ok) ==
    /\ phase = "started"
    /\ LET r == RefreshIndexIncremental(MgrState, store, ok)
       IN  /\ tools' = r.mgr.tools
           /\ tools_cache' = r.mgr.tools_cache
           /\ cache_timestamps' = r.mgr.cache_timestamps
           /\ store' = r.col
           /\ last' = [Idle EXCEPT !.op = "refresh", !.ret = r.ret,
                                   !.listed = r.listed, !.pre = Pre,
                                   !.storeOk = ok, !.changes = r.changes,
                                   !.stats = r.stats]
    /\ UNCHANGED <<phase, envVars, category, tags>>

\* refresh_index_incremental, as the refresh worker calls it
Refresh(ok) == RefreshCall(ok) /\ UNCHANGED auxVars

\* search_tools(query, top_k): the first top_k matching documents in the
\* order the collection returns them, resolved through get_tool
Search(query, top_k) ==
    /\ phase = "started"
    /\ LET matching == {store[id] : id \in {k \in DOMAIN store : Matches(query, store[k])}}
       IN  \E results \in SUBSET matching :
              /\ Cardinality(results) = IF Cardinality(matching) < top_k
                                        THEN Cardinality(matching) ELSE top_k
              /\ last' = [Idle EXCEPT !.op = "search", !.query = query,
                                      !.top_k = top_k, !.found = Resolve(results)]
    /\ UNCHANGED <<phase, envVars, category, tags, mgrVars, store, auxVars>>

\* ------------------------------------------------------------------ claims
\* the servers a discovery call targeted
Targeted == IF last.server = None THEN Servers ELSE {last.server}

\* the handlers that run discover_tools
Discovering == {"construct", "discover", "startup", "refresh"}

\* the tool lists of a discovery seen as tool_ids
IdsOf(tl, s) == {ToolKey(s, tl[i].name) : i \in 1..Len(tl)}

\* the age in seconds a cache entry had when the last handler started
AgeBefore(s) == last.pre.cache_timestamps[s] * TickSeconds

\* C1: in every discover_tools call, forced or not, a targeted server whose
\* health probe fails is absent from the returned mapping and has no entry in
\* tools_cache or cache_timestamps afterwards, whatever was cached before.
C1_UnhealthyEvicted ==
    last.op \in Discovering =>
        \A s \in Targeted :
            ~health[s] => /\ s \notin DOMAIN last.ret
                          /\ s \notin DOMAIN tools_cache
                          /\ s \notin DOMAIN cache_timestamps

\* C1 happens: a discovery evicted a server that held an unexpired entry
C1_Witness ==
    /\ last.op = "discover"
    /\ \E s \in Targeted :
          /\ ~health[s]
          /\ s \in DOMAIN last.pre.tools_cache
          /\ AgeBefore(s) < CacheTTL
          /\ s \notin DOMAIN tools_cache

\* the tool_ids the upstreams that are healthy and answer tools/list list
UpstreamIds ==
    UNION {IdsOf(upstream[s], s) : s \in {x \in Servers : health[x] /\ listOk[x]}}

\* C7: after startup (clear the store, then build_index, the store working)
\* the tool_ids in the store are exactly server_id:name over the tools the
\* forced discovery returned for the healthy servers, one document each,
\* none left from an earlier configuration.
C7_StartupIndexIsGroundTruth ==
    (last.op = "startup" /\ last.storeOk) =>
        /\ DOMAIN store = UpstreamIds
        /\ \A id \in DOMAIN store :
              /\ store[id].tool_id = id
              /\ store[id].server_id \in Servers
        /\ last.count = Cardinality(DOMAIN store)

\* C7 happens: a startup replaced the documents of an earlier configuration
C7_Witness ==
    /\ last.op = "startup" /\ last.storeOk
    /\ OldDoc.tool_id \in DOMAIN last.pre.store
    /\ Cardinality(DOMAIN store) = 2

ServerOf(tool_id) == SplitToolId(tool_id)[1]

\* C2: once a server whose tools were discovered and indexed is offline and
\* discover_tools has run, a search matching one of its tools returns no
\* ToolInfo of that server.
C2_SearchHidesOfflineServer ==
    [][(last.op = "discover" /\ last'.op = "search") =>
          \A tool_info \in last'.found :
              ~(tool_info.server_id \in Targeted /\ ~health[tool_info.server_id])]_vars

\* the servers whose discovery failed in the last handler: the health probe
\* failed, or tools/list was sent and did not answer
FailedServers ==
    {s \in Servers : ~health[s] \/ (s \in last.listed /\ s \notin DOMAIN last.ret)}

\* C3 as stated: a refresh during which the health probe or tools/list of a
\* declared server fails leaves the documents of that server in the store.
C3_FailedDiscoveryKeepsDocuments ==
    (last.op = "refresh" /\ last.storeOk) =>
        \A id \in DOMAIN last.pre.store :
            ServerOf(id) \in FailedServers => id \in DOMAIN store

\* the servers discover_tools serves tools of: healthy, with an unexpired
\* cache entry
Served == {s \in Servers : health[s] /\ s \in DOMAIN cache_timestamps
                             /\ cache_timestamps[s] * TickSeconds < CacheTTL}

\* C3 amended: after every incremental refresh whose store operations
\* succeed, a document S:T is in the store iff S passed its health probe in
\* that refresh and T is in the cache entry of S, unexpired or just replaced
\* by a tools/list that answered, and it carries the version of that tool;
\* a refresh during which the health probe of S fails, or tools/list of S is
\* sent and fails, leaves no document of S.
C3_RefreshMirrorsDiscovery ==
    (last.op = "refresh" /\ last.storeOk) =>
        /\ DOMAIN store = UNION {IdsOf(tools_cache[s], s) : s \in Served}
        /\ \A s \in Served : \A i \in 1..Len(tools_cache[s]) :
              store[ToolId(tools_cache[s][i])].tool_version
                  = GenerateToolVersion(tools_cache[s][i])
        /\ \A id \in DOMAIN store : ServerOf(id) \notin FailedServers

\* C3 happens: a refresh removed the documents of a declared server whose
\* health probe failed
C3_Witness ==
    /\ last.op = "refresh" /\ last.storeOk
    /\ \E id \in DOMAIN last.pre.store :
          /\ ServerOf(id) \in Servers
          /\ ~health[ServerOf(id)]
          /\ id \notin DOMAIN store
    /\ store # EmptyMap

\* the indexed tool_ids that their upstream, healthy and answering, no
\* longer lists
Dropped ==
    {id \in DOMAIN last.pre.store :
        /\ ServerOf(id) \in Servers
        /\ health[ServerOf(id)] /\ listOk[ServerOf(id)]
        /\ id \notin IdsOf(upstream[ServerOf(id)], ServerOf(id))}

\* C4: when a healthy upstream has stopped listing exactly one indexed tool
\* and every other document is still listed, the refresh reports removed = 1
\* and the store no longer holds the document, whatever the age of the cache.
C4_RemovedToolLeavesIndex ==
    (/\ last.op = "refresh" /\ last.storeOk
     /\ Cardinality(Dropped) = 1
     /\ DOMAIN last.pre.store \ Dropped \subseteq UpstreamIds) =>
        /\ last.stats.removed = 1
        /\ Dropped \cap DOMAIN store = {}

\* C5: with all store writes succeeding, refresh_index_incremental reports
\* added = the number of added tools and updated = the number of updated
\* tools it detected, and every updated document carries the new version.
C5_CountsMatchChangeSet ==
    (last.op = "refresh" /\ last.storeOk) =>
        /\ last.stats.added = Cardinality(last.changes.added)
        /\ last.stats.updated = Cardinality(last.changes.updated)
        /\ \A id \in last.changes.updated :
              store[id].tool_version # last.pre.store[id].tool_version

\* C6: a refresh right after build_index, nothing having changed upstream
\* and every server healthy, reports added = updated = removed = 0 and
\* leaves every document as it was.
C6_RefreshAfterBuildIsNoop ==
    [][(/\ last.op = "startup" /\ last.storeOk
        /\ last'.op = "refresh" /\ last'.storeOk
        /\ \A s \in Servers : health[s]) =>
          /\ last'.stats.added = 0
          /\ last'.stats.updated = 0
          /\ last'.stats.removed = 0
          /\ store' = store]_vars

\* C8: after a discovery of S that answered, the entries of tools_by_id that
\* belong to S are exactly the tools of the reply, with their new content.
C8_ToolsByIdFollowsListing ==
    last.op \in Discovering =>
        \A s \in last.listed \cap DOMAIN last.ret :
            /\ {k \in DOMAIN tools : tools[k].server_id = s} = IdsOf(upstream[s], s)
            /\ \A i \in 1..Len(upstream[s]) :
                  tools[ToolKey(s, upstream[s][i].name)].description
                      = upstream[s][i].description

\* C9: when tools/list fails for a server that passed its health probe, the
\* server has no cache entry when discover_tools returns.
C9_FailedListLeavesNoEntry ==
    last.op \in Discovering =>
        \A s \in last.listed \ DOMAIN last.ret :
            s \notin DOMAIN tools_cache /\ s \notin DOMAIN cache_timestamps

Next ==
    \/ \E s \in Servers : SetHealth(s)
    \/ \E s \in Volatile : SetListOk(s)
    \/ \E s \in Volatile, n \in ToolNames : UpstreamAddTool(s, n)
    \/ \E s \in Volatile, i \in 1..Cardinality(ToolNames) : UpstreamRemoveTool(s, i)
    \/ \E s \in Volatile, i \in 1..Cardinality(ToolNames), d \in Descriptions :
          UpstreamChangeDescription(s, i, d)
    \/ Tick
    \/ Construct
    \/ \E s \in Servers \cup {None}, f \in BOOLEAN : Discover(s, f)
    \/ \E ok \in BOOLEAN : Startup(ok)
    \/ \E ok \in BOOLEAN : Refresh(ok)
    \/ \E q \in ToolNames, k \in TopKs : Search(q, k)

Spec == Init /\ [][Next]_vars

\* ========================================================= session layer
\* One declared server, "A", of any dialect, and the upstream behind it.
MaxSessions == 2        \* sessions the upstream issues in one run

Dialects == {"http", "streamable_http", "sse"}
Unregistered == "U"                     \* an id that mcpServers does not hold
CallNames == {"read_file", "no_such_tool"}
HeaderCasings == {"Mcp-Session-Id", "MCP-SESSION-ID"}
ErrorCodes == {-32601, -32603}
ErrorMessages == {"unknown method (zh)", "Method not found", "method not found",
                  "Internal error"}
Absent == "absent"                      \* a key the reply does not hold
\* serverInfo of the initialize result: missing, or an object whose name
\* and description are strings or missing
ServerInfos ==
    {[present |-> FALSE, name |-> Absent, description |-> Absent],
     [present |-> TRUE, name |-> "srv", description |-> Absent],
     [present |-> TRUE, name |-> "", description |-> Absent],
     [present |-> TRUE, name |-> Absent, description |-> "desc"]}

\* str.lower() on the names of the session header
Lower(h) ==
    IF h \in HeaderCasings \cup {"mcp-session-id"} THEN "mcp-session-id" ELSE h

\* a lookup that tells the casings of a header name apart
HeaderGetExact(headers, name) ==
    IF name \in DOMAIN headers THEN headers[name] ELSE None

\* response.headers.get(name): requests keeps the reply headers in a
\* case-insensitive mapping
HeaderGet(headers, name) ==
    IF \E k \in DOMAIN headers : Lower(k) = Lower(name)
    THEN headers[CHOOSE k \in DOMAIN headers : Lower(k) = Lower(name)]
    ELSE None

\* needle in error_message, for the two needles of _init_server_session
Contains(message, needle) ==
    \/ needle = "unknown method (zh)" /\ message = "unknown method (zh)"
    \/ needle = "Method not found" /\ message = "Method not found"

\* a reply {"result": null}, with or without the session header: a JSON-RPC
\* response that is no initialize result
NullResults == [kind : {"null_result"}, where : {"Mcp-Session-Id", None}]

\* the replies an upstream gives to initialize: a result, with the session
\* id in a header of some casing, in the body or nowhere, and with or
\* without serverInfo; a JSON-RPC error; an HTTP status other than 200
InitReplies ==
    [kind : {"result"}, where : HeaderCasings \cup {"body", None},
     info : ServerInfos]
    \cup [kind : {"error"}, code : ErrorCodes, message : ErrorMessages]
    \cup [kind : {"http_error"}]
    \cup NullResults

\* what an sse upstream sends on the GET of the event stream: the endpoint
\* event with a sessionId, a stream without it, an HTTP status other than 200
SseReplies == [kind : {"endpoint", "no_endpoint", "http_error"}]

\* MCPServer(id, url, type), __post_init__ included
MCPServer(id, type) ==
    [id |-> id, type |-> type,
     requires_session |-> type \in {"streamable_http", "sse"},
     session_id |-> None, name |-> None, description |-> None,
     sse_endpoint |-> None]

\* f"MCP服务器: {server.id}"
DefaultDescription(id) == "MCP server: " \o id

\* the upstream answers a request unless it cannot be reached or the request
\* carries a session id that it does not hold
Answer(u, sid) ==
    IF ~u.reach THEN "conn_error"
    ELSE IF sid # None /\ sid # u.accepts THEN u.reject
    ELSE "ok"

\* requests.post / requests.get: the request is on the wire, with the
\* session id it carries and what had been exchanged before it
Send(m, method, sid, url) ==
    [m EXCEPT !.reqs = Append(@, [method |-> method, sid |-> sid, url |-> url,
                                  initialized |-> m.hist.initialized,
                                  notified |-> m.hist.notified,
                                  issued |-> m.up.issued]),
              !.hist.notified = @ \/ (method = "notifications/initialized")]

\* _get_request_headers: the session header it adds
RequestSessionHeader(server) ==
    IF server.requires_session /\ server.session_id # None
    THEN server.session_id ELSE None

\* a failure path that leaves name and description as they are
SetDefaultServerInfoSkipped(m, s) == m

\* _set_default_server_info
SetDefaultServerInfo(m, s) ==
    [m EXCEPT !.servers[s].name = IF @ = None \/ @ = "" THEN s ELSE @,
              !.servers[s].description =
                   IF @ = None \/ @ = "" THEN DefaultDescription(s) ELSE @]

\* _send_initialized_notification: errors are logged
SendInitializedNotification(m, s) ==
    Send(m, "notifications/initialized", RequestSessionHeader(m.servers[s]), "url")

\* the session id the upstream issues with its n-th session
SessionId(n) == "s" \o ToString(n)

\* the message endpoint an sse upstream announces with its n-th session
Endpoint(n) == "/message/" \o ToString(n)

\* _init_sse_server_session once the GET of the event stream is sent: the
\* endpoint and the sessionId of its first data line
SseConnected(g, s) ==
    IF ~g.up.reach \/ g.up.sse.kind # "endpoint"
    THEN [m |-> SetDefaultServerInfo(g, s), ok |-> FALSE]
    ELSE [m |-> SetDefaultServerInfo(
                    [g EXCEPT !.up.issued = @ + 1,
                              !.up.accepts = SessionId(g.up.issued + 1),
                              !.servers[s].session_id = SessionId(g.up.issued + 1),
                              !.servers[s].sse_endpoint = Endpoint(g.up.issued + 1)], s),
          ok |-> TRUE]

\* _init_sse_server_session
InitSseServerSession(m, s) == SseConnected(Send(m, "GET", None, "url"), s)

\* the session id _init_server_session reads from a result: the header
\* "mcp-session-id", else the header "Mcp-Session-Id", else sessionId of
\* the body
SessionIdOf(reply, sid) ==
    LET headers == IF reply.where \in HeaderCasings
                   THEN [k \in {reply.where} |-> sid] ELSE EmptyMap
    IN  IF HeaderGet(headers, "mcp-session-id") # None
        THEN HeaderGet(headers, "mcp-session-id")
        ELSE IF HeaderGet(headers, "Mcp-Session-Id") # None
        THEN HeaderGet(headers, "Mcp-Session-Id")
        ELSE IF reply.where = "body" THEN sid
        ELSE None

\* name and description after a result: from serverInfo when it is there,
\* else the defaults unless already set
RecordServerInfo(m, s, info) ==
    IF info.present
    THEN [m EXCEPT !.servers[s].name =
                        IF info.name = Absent THEN s ELSE info.name,
                   !.servers[s].description =
                        IF info.description = Absent THEN DefaultDescription(s)
                        ELSE info.description]
    ELSE SetDefaultServerInfo(m, s)

\* the test of line 530: error_code == -32601 and "未知方法" in error_message
\*                        or "Method not found" in error_message
InitializeUnsupported(code, message) ==
    \/ code = -32601 /\ Contains(message, "unknown method (zh)")
    \/ Contains(message, "Method not found")

\* the session id is kept and notifications/initialized is sent
KeepSession(a, s, session_id) ==
    IF session_id # None
    THEN SendInitializedNotification([a EXCEPT !.servers[s].session_id = session_id], s)
    ELSE a

\* the upstream answers initialize with a result, issuing a session when
\* its reply carries one
UpstreamInitialized(i) ==
    IF i.up.reply.where # None
    THEN [i EXCEPT !.hist.initialized = TRUE, !.up.issued = @ + 1,
                   !.up.accepts = SessionId(i.up.issued + 1)]
    ELSE [i EXCEPT !.hist.initialized = TRUE]

\* _init_server_session on a result
InitializeResult(a, s, reply) ==
    [m |-> RecordServerInfo(KeepSession(a, s, SessionIdOf(reply, a.up.accepts)),
                            s, reply.info),
     ok |-> TRUE]

\* _init_server_session on a reply whose "result" is null: a session id of
\* the headers is kept and notified, then initialize_result.get raises and
\* except Exception sets the defaults and returns False
InitializeNullResult(a, s, reply) ==
    [m |-> SetDefaultServerInfo(KeepSession(a, s, SessionIdOf(reply, a.up.accepts)), s),
     ok |-> FALSE]

\* _init_server_session once initialize is sent
InitializeSent(i, s) ==
    IF ~i.up.reach \/ i.up.reply.kind = "http_error"
    THEN [m |-> SetDefaultServerInfo(i, s), ok |-> FALSE]
    ELSE IF i.up.reply.kind = "error"
    THEN [m |-> SetDefaultServerInfo([i EXCEPT !.hist.initialized = TRUE], s),
          ok |-> InitializeUnsupported(i.up.reply.code, i.up.reply.message)]
    ELSE IF i.up.reply.kind = "null_result"
    THEN InitializeNullResult(UpstreamInitialized(i), s, i.up.reply)
    ELSE InitializeResult(UpstreamInitialized(i), s, i.up.reply)

\* _init_server_session: the state after it and the flag it returns
InitServerSession(m, s) ==
    IF m.servers[s].type = "sse" THEN InitSseServerSession(m, s)
    ELSE InitializeSent(Send(m, "initialize", None, "url"), s)

\* check_server_health of a session dialect once its tools/list is sent
ProbeSent(p, s, sid) ==
    IF Answer(p.up, sid) = "conn_error" THEN InitServerSession(p, s)
    ELSE [m |-> p, ok |-> Answer(p.up, sid) = "ok"]

\* check_server_health of the plain dialect once GET /health is sent
HealthSent(g) == [m |-> g, ok |-> Answer(g.up, None) = "ok"]

\* check_server_health for a server of any dialect: the state after it and
\* the flag it returns
CheckServerHealthSession(m, s) ==
    IF s \notin DOMAIN m.servers THEN [m |-> m, ok |-> FALSE]
    ELSE IF m.servers[s].requires_session
    THEN IF m.servers[s].session_id = None
         THEN InitServerSession(m, s)
         ELSE ProbeSent(Send(m, "tools/list", RequestSessionHeader(m.servers[s]), "url"),
                        s, RequestSessionHeader(m.servers[s]))
    ELSE HealthSent(Send(m, "GET /health", None, "health"))

\* the url a request of the sse dialect goes to once the endpoint is known
RequestUrl(server) ==
    IF server.type = "sse" /\ server.sse_endpoint # None THEN "endpoint" ELSE "url"

\* _discover_tools_from_server once tools/list is sent: ok is FALSE when it
\* raises
ListSent(p, s, sid) ==
    IF Answer(p.up, sid) # "ok" THEN [m |-> p, ok |-> FALSE]
    ELSE [m |-> DiscoverToolsFromServer(p, s), ok |-> TRUE]

\* _discover_tools_from_server after the bootstrap it may have made
ListAfterBootstrap(b, s) ==
    IF ~b.ok THEN [m |-> b.m, ok |-> FALSE]
    ELSE ListSent(Send(b.m, "tools/list", RequestSessionHeader(b.m.servers[s]),
                       RequestUrl(b.m.servers[s])),
                  s, RequestSessionHeader(b.m.servers[s]))

\* _discover_tools_from_server for a server of any dialect: bootstrap when a
\* session is required and missing, then tools/list
DiscoverToolsFromServerSession(m, s) ==
    IF m.servers[s].requires_session /\ m.servers[s].session_id = None
    THEN ListAfterBootstrap(InitServerSession(m, s), s)
    ELSE ListAfterBootstrap([m |-> m, ok |-> TRUE], s)

\* discover_tools after _discover_tools_from_server: _update_cache, or the
\* error is logged
CacheAfterList(d, s) ==
    IF d.ok THEN UpdateCache(d.m, s, d.m.ret[s]) ELSE d.m

\* the body of the loop of discover_tools after the health probe
DiscoverAfterHealth(h, s, force_refresh) ==
    IF ~h.ok THEN ClearCache(h.m, s)
    ELSE IF ~force_refresh /\ IsCacheValid(h.m.cache_timestamps, s)
         THEN [h.m EXCEPT !.ret = Put(@, s, GetToolsFromCache(h.m.tools_cache, s))]
    ELSE CacheAfterList(DiscoverToolsFromServerSession(h.m, s), s)

\* the body of the loop of discover_tools for a server of any dialect
DiscoverOneSession(m, s, force_refresh) ==
    DiscoverAfterHealth(CheckServerHealthSession(m, s), s, force_refresh)

RECURSIVE DiscoverLoopSession(_, _, _)
DiscoverLoopSession(m, ss, force_refresh) ==
    IF ss = {} THEN m
    ELSE DiscoverLoopSession(
             DiscoverOneSession(m, CHOOSE x \in ss : TRUE, force_refresh),
             ss \ {CHOOSE x \in ss : TRUE}, force_refresh)

\* discover_tools over the declared servers of any dialect
DiscoverToolsSession(m, server_id, force_refresh) ==
    IF server_id # None
    THEN IF server_id \in DOMAIN m.servers
         THEN DiscoverLoopSession(m, {server_id}, force_refresh)
         ELSE m
    ELSE DiscoverLoopSession(m, DOMAIN m.servers, force_refresh)

\* call_tool once tools/call is sent: the kind of text it returns
CallSent(p, s, sid, tool_name) ==
    IF Answer(p.up, sid) = "conn_error" THEN [p EXCEPT !.out = "connection_error"]
    ELSE IF Answer(p.up, sid) = "http_error" THEN [p EXCEPT !.out = "http_error"]
    ELSE IF \E i \in 1..Len(upstream[s]) : upstream[s][i].name = tool_name
         THEN [p EXCEPT !.out = "result"]
    ELSE [p EXCEPT !.out = "upstream_error"]

\* the session id call_tool puts in the header
CallSessionHeader(server) ==
    IF server.requires_session THEN server.session_id ELSE None

\* call_tool after the bootstrap it may have made, whose flag it ignores
CallAfterBootstrap(b, s, tool_name) ==
    CallSent(Send(b, "tools/call", CallSessionHeader(b.servers[s]),
                  RequestUrl(b.servers[s])),
             s, CallSessionHeader(b.servers[s]), tool_name)

\* MCPToolCaller.call_tool: the state after it; out is the kind of text it
\* returns
CallTool(m, server_id, tool_name) ==
    IF server_id \notin DOMAIN m.servers
    THEN \* server is None: server.requires_session raises, "错误: " + str(e)
         [m EXCEPT !.out = "exception"]
    ELSE IF m.servers[server_id].requires_session
            /\ m.servers[server_id].session_id = None
    THEN CallAfterBootstrap(InitServerSession(m, server_id).m, server_id, tool_name)
    ELSE CallAfterBootstrap(m, server_id, tool_name)

\* the manager, the servers and the upstream as a record, nothing sent yet
SessionState ==
    [servers |-> servers, up |-> up, hist |-> hist, reqs |-> <<>>,
     tools |-> tools, tools_cache |-> tools_cache,
     cache_timestamps |-> cache_timestamps, ret |-> EmptyMap, listed |-> {},
     out |-> None]

\* the record of the last handler of the session layer
NoCall == [op |-> "none", server |-> None, tool |-> None, force |-> FALSE,
           reqs |-> <<>>, out |-> None, ok |-> FALSE,
           pre |-> [servers |-> EmptyMap, accepts |-> None, tools |-> EmptyMap]]

PreSession == [servers |-> servers, accepts |-> up.accepts, tools |-> tools]

\* the upstreams a server of a dialect can stand for when the gateway starts
InitUpstreams(type) ==
    [reach : BOOLEAN,
     reply : IF type = "sse" THEN {[kind |-> "http_error"]} ELSE InitReplies,
     sse : IF type = "sse" THEN SseReplies ELSE {[kind |-> "http_error"]},
     accepts : {None}, issued : {0},
     reject : {"http_error", "conn_error"}]

\* the state after load_config of a file that declares "A"
InitSession ==
    /\ phase = "new"
    /\ health = [s \in Servers |-> TRUE]
    /\ listOk = [s \in Servers |-> TRUE]
    /\ upstream = [s \in Servers |-> InitListing(s)]
    /\ envChanges = 0
    /\ category = [s \in Servers |-> None]
    /\ tags = [s \in Servers |-> {}]
    /\ tools = EmptyMap
    /\ tools_cache = EmptyMap
    /\ cache_timestamps = EmptyMap
    /\ store = EmptyMap
    /\ last = Idle
    /\ \E type \in Dialects :
          /\ servers = [s \in {"A"} |-> MCPServer(s, type)]
          /\ up \in InitUpstreams(type)
    /\ hist = [initialized |-> FALSE, notified |-> FALSE]
    /\ call = NoCall
    /\ config = <<>>
    /\ pc = EmptyMap
    /\ refresher = None

\* what a handler of the session layer leaves behind
Commit(m) ==
    /\ m.up.issued <= MaxSessions
    /\ servers' = m.servers
    /\ up' = m.up
    /\ hist' = m.hist
    /\ tools' = m.tools
    /\ tools_cache' = m.tools_cache
    /\ cache_timestamps' = m.cache_timestamps

sessionFixed == <<health, listOk, upstream, store, last, config, pc, refresher>>

\* the upstream goes down or comes back
UpstreamReach ==
    /\ envChanges < MaxEnvChanges
    /\ envChanges' = envChanges + 1
    /\ up' = [up EXCEPT !.reach = ~@]
    /\ call' = NoCall
    /\ UNCHANGED <<phase, category, tags, mgrVars, servers, hist, sessionFixed>>

\* the upstream forgets the session it had issued
UpstreamDropsSession ==
    /\ envChanges < MaxEnvChanges
    /\ up.accepts # None
    /\ envChanges' = envChanges + 1
    /\ up' = [up EXCEPT !.accepts = None]
    /\ call' = NoCall
    /\ UNCHANGED <<phase, category, tags, mgrVars, servers, hist, sessionFixed>>

RECURSIVE InitializeSessions(_, _)
\* _initialize_sessions: _init_server_session for every declared server
InitializeSessions(m, ss) ==
    IF ss = {} THEN m
    ELSE InitializeSessions(InitServerSession(m, CHOOSE x \in ss : TRUE).m,
                            ss \ {CHOOSE x \in ss : TRUE})

\* the constructor once _auto_discover_server_metadata has discovered
Constructed(d) ==
    /\ Commit(d)
    /\ category' = [s \in Servers |->
                      IF s \in DOMAIN d.ret /\ d.ret[s] # <<>>
                      THEN InferCategory(d.ret[s]) ELSE category[s]]
    /\ tags' = [s \in Servers |->
                  IF s \in DOMAIN d.ret /\ d.ret[s] # <<>>
                  THEN InferTags(d.ret[s]) ELSE tags[s]]
    /\ call' = [NoCall EXCEPT !.op = "construct", !.reqs = d.reqs,
                              !.pre = PreSession]

\* MCPServerManager.__init__ after load_config: _initialize_sessions, then
\* _auto_discover_server_metadata
ConstructSession ==
    /\ phase = "new"
    /\ Constructed(DiscoverToolsSession(
                       InitializeSessions(SessionState, DOMAIN servers), None, FALSE))
    /\ phase' = "constructed"
    /\ UNCHANGED <<envChanges, sessionFixed>>

\* check_server_health has returned
Probed(h, server_id) ==
    /\ Commit(h.m)
    /\ call' = [NoCall EXCEPT !.op = "health", !.server = server_id,
                              !.reqs = h.m.reqs, !.ok = h.ok, !.pre = PreSession]

\* check_server_health called by a client of the manager
HealthSession(server_id) ==
    /\ phase = "constructed"
    /\ Probed(CheckServerHealthSession(SessionState, server_id), server_id)
    /\ UNCHANGED <<phase, envChanges, category, tags, sessionFixed>>

\* discover_tools has returned
Discovered(d, force_refresh) ==
    /\ Commit(d)
    /\ call' = [NoCall EXCEPT !.op = "discover", !.force = force_refresh,
                              !.reqs = d.reqs, !.pre = PreSession]

\* discover_tools called by a client of the manager
DiscoverSession(force_refresh) ==
    /\ phase = "constructed"
    /\ Discovered(DiscoverToolsSession(SessionState, None, force_refresh), force_refresh)
    /\ UNCHANGED <<phase, envChanges, category, tags, sessionFixed>>

\* call_tool has returned
Called(c, server_id, tool_name) ==
    /\ Commit(c)
    /\ call' = [NoCall EXCEPT !.op = "call_tool", !.server = server_id,
                              !.tool = tool_name, !.reqs = c.reqs,
                              !.out = c.out, !.pre = PreSession]

\* call_tool as the tool node calls it
CallToolSession(server_id, tool_name) ==
    /\ phase = "constructed"
    /\ Called(CallTool(SessionState, server_id, tool_name), server_id, tool_name)
    /\ UNCHANGED <<phase, envChanges, category, tags, sessionFixed>>

NextSession ==
    \/ UpstreamReach
    \/ UpstreamDropsSession
    \/ ConstructSession
    \/ \E s \in {"A", Unregistered} : HealthSession(s)
    \/ \E f \in BOOLEAN : DiscoverSession(f)
    \/ \E s \in {"A", Unregistered}, n \in CallNames : CallToolSession(s, n)

SpecSession == InitSession /\ [][NextSession]_vars

\* --------------------------------------------------- claims, session layer
\* C11: call_tool for a (server_id, tool_name) pair that is not in
\* tools_by_id sends no request upstream and returns the message that names
\* the missing tool and the alternatives.
C11_MissingToolIsRejected ==
    (call.op = "call_tool"
     /\ ToolKey(call.server, call.tool) \notin DOMAIN call.pre.tools) =>
        /\ call.reqs = <<>>
        /\ call.out = "tool_missing"

\* the bootstrap of a server of a dialect fails against this upstream
BootstrapFails(u, type) ==
    \/ ~u.reach
    \/ type = "sse" /\ u.sse.kind # "endpoint"
    \/ type # "sse" /\ u.reply.kind \in {"http_error", "null_result"}
    \/ type # "sse" /\ u.reply.kind = "error"
          /\ ~InitializeUnsupported(u.reply.code, u.reply.message)

\* the requests of a method among those the last handler sent
Sent(method) == {i \in 1..Len(call.reqs) : call.reqs[i].method = method}

\* C12: call_tool on a streamable or sse server without session_id whose
\* bootstrap fails returns a connection error and sends no tools/call.
C12_FailedBootstrapSendsNoCall ==
    (/\ call.op = "call_tool" /\ call.server \in DOMAIN servers
     /\ servers[call.server].requires_session
     /\ call.pre.servers[call.server].session_id = None
     /\ BootstrapFails(up, servers[call.server].type)) =>
        /\ Sent("tools/call") = {}
        /\ call.out = "connection_error"

\* C13: initialize is sent and answered before any tools/list or tools/call
\* request to the upstream, and notifications/initialized is sent before any
\* tools/call request to it.
C13_InitializeHappensBefore ==
    \A i \in 1..Len(call.reqs) :
        /\ call.reqs[i].method \in {"tools/list", "tools/call"} =>
               call.reqs[i].initialized
        /\ call.reqs[i].method = "tools/call" => call.reqs[i].notified

\* the server is streamable and its upstream answers initialize with a
\* result that carries the session id in a header, in some casing
StreamableWithHeader ==
    /\ "A" \in DOMAIN servers
    /\ servers["A"].type = "streamable_http"
    /\ up.reply.kind = "result"
    /\ up.reply.where \in HeaderCasings

\* C14: for a streamable server whose latest successful initialize reply
\* carried the header mcp-session-id = x, in any casing, every later request
\* to it (notifications/initialized, tools/list, health probe, tools/call)
\* carries x, until a later successful bootstrap replaces x.
C14_SessionIdIsEchoed ==
    StreamableWithHeader =>
        \A i \in 1..Len(call.reqs) :
            (call.reqs[i].method # "initialize" /\ call.reqs[i].issued > 0) =>
                call.reqs[i].sid = SessionId(call.reqs[i].issued)

\* a tools/call carries the id of the second session, issued under an
\* upper-case header name by the bootstrap that replaced the first
C14_Witness ==
    /\ StreamableWithHeader
    /\ up.reply.where = "MCP-SESSION-ID"
    /\ call.op = "call_tool"
    /\ \E i \in Sent("tools/call") :
          call.reqs[i].issued = 2 /\ call.reqs[i].sid = SessionId(2)

\* C15: an initialize answered with a JSON-RPC error of code -32601 is a
\* successful bootstrap with name = server id and the default description,
\* whatever the message; an error of any other code is a failed bootstrap.
C15_MethodNotFoundIsSuccess ==
    (/\ call.op = "health" /\ call.server \in DOMAIN servers
     /\ servers[call.server].type = "streamable_http"
     /\ Sent("initialize") # {}
     /\ up.reach /\ up.reply.kind = "error") =>
        /\ call.ok <=> (up.reply.code = -32601)
        /\ up.reply.code = -32601 =>
              /\ servers[call.server].name = call.server
              /\ servers[call.server].description = DefaultDescription(call.server)

\* a new bootstrap of a server of a dialect is answered with a new session
BootstrapIssuesSession(u, type) ==
    /\ u.reach
    /\ IF type = "sse" THEN u.sse.kind = "endpoint"
       ELSE u.reply.kind = "result" /\ u.reply.where # None

\* the last handler found the server holding a session id that the upstream
\* no longer accepts, while the upstream accepts a new bootstrap
MetStaleSession ==
    /\ call.op \in {"health", "call_tool"}
    /\ call.server \in DOMAIN servers
    /\ servers[call.server].requires_session
    /\ call.pre.servers[call.server].session_id # None
    /\ call.pre.servers[call.server].session_id # call.pre.accepts
    /\ BootstrapIssuesSession(up, servers[call.server].type)

\* C16: a health probe or tool call that meets a session id the upstream no
\* longer accepts re-bootstraps and replaces session_id (and the message
\* endpoint for sse) with the new values, which the upstream accepts.
C16_StaleSessionIsReplaced ==
    MetStaleSession =>
        /\ servers[call.server].session_id # call.pre.servers[call.server].session_id
        /\ servers[call.server].session_id = up.accepts
        /\ servers[call.server].type = "sse" =>
              servers[call.server].sse_endpoint
                  # call.pre.servers[call.server].sse_endpoint

\* the upstream's initialize result names the server with the empty string
UpstreamNameIsEmpty ==
    /\ up.reply.kind = "result"
    /\ up.reply.info.present
    /\ up.reply.info.name = ""

MaxEntries == 3         \* entries of mcpServers in one configuration file

\* the id of the i-th entry of mcpServers, in the order of the file
ServerIdAt(i) == "S" \o ToString(i)

\* a value of mcpServers that is not an object
NonObject == [kind |-> "non_object", url |-> Absent, type |-> Absent,
              headers |-> Absent]

\* the values of mcpServers: something that is not an object, or an object
\* whose url is missing, empty or set, whose type is missing or set, and
\* whose headers are missing, hold ${VAR} of a variable that os.getenv can
\* look up, or hold ${VAR} with a name that os.getenv cannot encode
Entries ==
    {NonObject}
    \cup [kind : {"object"}, url : {Absent, "", "u"}, type : {Absent, "sse"},
          headers : {Absent, "env", "bad_env"}]

\* the configuration files: mcpServers with up to MaxEntries entries
Configs == UNION {[1..n -> Entries] : n \in 0..MaxEntries}

\* server_config.get("type", "http")
TypeOf(entry) == IF entry.type = Absent THEN "http" ELSE entry.type

\* replace_env_var under re.sub raises: os.getenv cannot encode the name
SubstitutionRaises(entry) == entry.headers = "bad_env"

RECURSIVE LoadFrom(_, _, _)
\* the loop of load_config from the i-th entry on, inside the try that
\* encloses the whole loop: an exception ends the loop and is logged
LoadFrom(cfg, i, registered) ==
    IF i > Len(cfg) THEN registered
    ELSE IF cfg[i].kind # "object" THEN LoadFrom(cfg, i + 1, registered)
    ELSE IF cfg[i].url \in {Absent, ""} THEN LoadFrom(cfg, i + 1, registered)
    ELSE IF SubstitutionRaises(cfg[i]) THEN registered
    ELSE LoadFrom(cfg, i + 1,
                  Put(registered, ServerIdAt(i),
                      MCPServer(ServerIdAt(i), TypeOf(cfg[i]))))

\* load_config: self.servers after it
LoadConfigResult(cfg) == LoadFrom(cfg, 1, EmptyMap)

\* the state before load_config reads a configuration file
InitConfig ==
    /\ phase = "new"
    /\ health = [s \in Servers |-> TRUE]
    /\ listOk = [s \in Servers |-> TRUE]
    /\ upstream = [s \in Servers |-> InitListing(s)]
    /\ envChanges = 0
    /\ category = [s \in Servers |-> None]
    /\ tags = [s \in Servers |-> {}]
    /\ tools = EmptyMap
    /\ tools_cache = EmptyMap
    /\ cache_timestamps = EmptyMap
    /\ store = EmptyMap
    /\ last = Idle
    /\ servers = EmptyMap
    /\ up = None
    /\ hist = None
    /\ call = NoCall
    /\ config \in Configs
    /\ pc = EmptyMap
    /\ refresher = None

\* MCPServerManager.load_config
LoadConfig ==
    /\ phase = "new"
    /\ servers' = LoadConfigResult(config)
    /\ call' = [NoCall EXCEPT !.op = "load_config", !.out = "returned"]
    /\ phase' = "loaded"
    /\ UNCHANGED <<health, listOk, upstream, envChanges, category, tags,
                   mgrVars, store, last, up, hist, config, pc, refresher>>

NextConfig == LoadConfig

SpecConfig == InitConfig /\ [][NextConfig]_vars

\* --------------------------------------------------- claims, load_config
\* an entry that is an object with a non-empty url
Registrable(entry) == entry.kind = "object" /\ entry.url \notin {Absent, ""}

\* C18: load_config returns without raising and registers exactly those
\* entries of mcpServers that are objects with a non-empty url, the type
\* defaulting to "http" when absent; a skipped entry does not keep the
\* entries before or after it from being registered.
C18_LoadConfigRegistersValidEntries ==
    call.op = "load_config" =>
        /\ call.out = "returned"
        /\ DOMAIN servers =
               {ServerIdAt(i) : i \in {j \in 1..Len(config) : Registrable(config[j])}}
        /\ \A i \in 1..Len(config) :
               Registrable(config[i]) =>
                   servers[ServerIdAt(i)].type = TypeOf(config[i])

\* ------------------------------------------------------------------ threads
MaxRuns == 2            \* discoveries one thread starts in one run

\* the request path and the worker of start_auto_refresh
Threads == {"request", "refresh"}

\* what tools/list of "A" answers before and after the upstream changes
ListingOld == <<Tool("read_file", "d1"), Tool("get_time", "d1")>>
ListingNew == <<Tool("read_file", "d2"), Tool("get_time", "d2")>>

\* tools_by_id and the cache entry of "A", as a reader finds them
Snapshot(t, cache) == [tools |-> t, cache |-> GetToolsFromCache(cache, "A")]

NoSnapshot == Snapshot(EmptyMap, EmptyMap)

\* a thread that is not inside discover_tools, after runs discoveries
IdleThread(runs) ==
    [at |-> "idle", force |-> FALSE, got |-> <<>>, i |-> 0, runs |-> runs,
     pre |-> NoSnapshot]

\* nothing read yet
NoRead == [op |-> "none", by |-> None, seen |-> NoSnapshot,
           writer |-> IdleThread(0)]

\* the manager after a constructor whose discovery of "A" answered
ConstructedTools == RegisterTools(ParseTools("A"), "A", EmptyMap)

\* the gateway is constructed and serving, the refresh worker started: "A"
\* is plain, or streamable with the session of the constructor, its cache
\* entry fresh or expired, or streamable without session because its
\* upstream was down then
InitThreads ==
    /\ phase = "started"
    /\ health = [s \in Servers |-> TRUE]
    /\ listOk = [s \in Servers |-> TRUE]
    /\ upstream = [s \in Servers |-> IF s = "A" THEN ListingOld ELSE InitListing(s)]
    /\ envChanges = 0
    /\ category = [s \in Servers |-> None]
    /\ tags = [s \in Servers |-> {}]
    /\ store = EmptyMap
    /\ last = Idle
    /\ hist = None
    /\ config = <<>>
    /\ refresher = None
    /\ call = NoRead
    /\ pc = [t \in Threads |-> IdleThread(0)]
    /\ \/ /\ servers = [s \in {"A"} |-> MCPServer(s, "http")]
          /\ up = [issued |-> 0]
          /\ tools = ConstructedTools
          /\ tools_cache = [s \in {"A"} |-> ParseTools("A")]
          /\ cache_timestamps \in [{"A"} -> {0, Expired}]
       \/ /\ servers = [s \in {"A"} |->
                          [MCPServer(s, "streamable_http")
                               EXCEPT !.session_id = SessionId(1)]]
          /\ up = [issued |-> 1]
          /\ tools = ConstructedTools
          /\ tools_cache = [s \in {"A"} |-> ParseTools("A")]
          /\ cache_timestamps \in [{"A"} -> {0, Expired}]
       \/ /\ servers = [s \in {"A"} |-> MCPServer(s, "streamable_http")]
          /\ up = [issued |-> 0]
          /\ tools = EmptyMap
          /\ tools_cache = EmptyMap
          /\ cache_timestamps = EmptyMap

threadsFixed ==
    <<phase, health, listOk, category, tags, store, last, hist, config, refresher>>

\* the upstream of "A" changes what it lists
UpstreamChanges ==
    /\ envChanges < MaxEnvChanges
    /\ envChanges' = envChanges + 1
    /\ upstream' = [upstream EXCEPT !["A"] =
                       IF @ = ListingOld THEN ListingNew ELSE ListingOld]
    /\ call' = NoRead
    /\ UNCHANGED <<mgrVars, servers, up, pc, threadsFixed>>

\* a thread enters discover_tools: check_server_health sends its probe, or
\* initialize when a session is required and missing
StartDiscover(t, force_refresh) ==
    /\ pc[t].at = "idle"
    /\ pc[t].runs < MaxRuns
    /\ pc' = [pc EXCEPT ![t].at =
                  IF servers["A"].requires_session /\ servers["A"].session_id = None
                  THEN "bootstrap" ELSE "probe",
                        ![t].force = force_refresh,
                        ![t].runs = @ + 1]
    /\ call' = NoRead
    /\ UNCHANGED <<envChanges, upstream, mgrVars, servers, up, threadsFixed>>

\* discover_tools once the server is found healthy, with the cache as the
\* thread finds it: the cached tools are returned, or tools/list is sent
AfterHealth(t, ts) ==
    IF ~pc[t].force /\ IsCacheValid(ts, "A")
    THEN /\ pc' = [pc EXCEPT ![t] = IdleThread(pc[t].runs)]
         /\ call' = [op |-> "cached", by |-> t, seen |-> Snapshot(tools, tools_cache),
                     writer |-> pc[CHOOSE u \in Threads : u # t]]
    ELSE /\ pc' = [pc EXCEPT ![t].at = "list"]
         /\ call' = NoRead

\* the health probe of a thread is answered
ProbeAnswered(t) ==
    /\ pc[t].at = "probe"
    /\ AfterHealth(t, cache_timestamps)
    /\ UNCHANGED <<envChanges, upstream, mgrVars, servers, up, threadsFixed>>

\* the initialize of a thread is answered with a new session
BootstrapAnswered(t) ==
    /\ pc[t].at = "bootstrap"
    /\ up' = [up EXCEPT !.issued = @ + 1]
    /\ servers' = [servers EXCEPT !["A"].session_id = SessionId(up.issued + 1),
                                  !["A"].name = "A",
                                  !["A"].description = DefaultDescription("A")]
    /\ AfterHealth(t, cache_timestamps)
    /\ UNCHANGED <<envChanges, upstream, mgrVars, threadsFixed>>

\* tools/list of _discover_tools_from_server is answered: the reply is
\* parsed, no tool is stored yet
ListAnswered(t) ==
    /\ pc[t].at = "list"
    /\ pc' = [pc EXCEPT ![t].at = "store", ![t].got = ParseTools("A"), ![t].i = 0,
                        ![t].pre = Snapshot(tools, tools_cache)]
    /\ call' = NoRead
    /\ UNCHANGED <<envChanges, upstream, mgrVars, servers, up, threadsFixed>>

\* one turn of the loop of _discover_tools_from_server:
\* self.tools[tool_key] = tool_info
StoreTool(t) ==
    /\ pc[t].at = "store"
    /\ pc[t].i < Len(pc[t].got)
    /\ tools' = Put(tools, ToolKey("A", pc[t].got[pc[t].i + 1].name),
                    pc[t].got[pc[t].i + 1])
    /\ pc' = [pc EXCEPT ![t].i = @ + 1]
    /\ call' = NoRead
    /\ UNCHANGED <<envChanges, upstream, tools_cache, cache_timestamps, servers, up,
                   threadsFixed>>

\* _update_cache, first statement: self.tools_cache[server_id] = ...
UpdateCacheTools(t) ==
    /\ pc[t].at = "store"
    /\ pc[t].i = Len(pc[t].got)
    /\ tools_cache' = Put(tools_cache, "A", pc[t].got)
    /\ pc' = [pc EXCEPT ![t].at = "stamp"]
    /\ call' = NoRead
    /\ UNCHANGED <<envChanges, upstream, tools, cache_timestamps, servers, up,
                   threadsFixed>>

\* _update_cache, second statement: self.cache_timestamps[server_id] = now
UpdateCacheStamp(t) ==
    /\ pc[t].at = "stamp"
    /\ cache_timestamps' = Put(cache_timestamps, "A", 0)
    /\ pc' = [pc EXCEPT ![t] = IdleThread(pc[t].runs)]
    /\ call' = NoRead
    /\ UNCHANGED <<envChanges, upstream, tools, tools_cache, servers, up, threadsFixed>>

\* get_tool / search_tools on a thread that is not discovering: it reads
\* self.tools, and the cache entry as _get_tools_from_cache would
Read(t) ==
    /\ pc[t].at = "idle"
    /\ call' = [op |-> "read", by |-> t, seen |-> Snapshot(tools, tools_cache),
                writer |-> pc[CHOOSE u \in Threads : u # t]]
    /\ call' # call
    /\ UNCHANGED <<envChanges, upstream, mgrVars, servers, up, pc, threadsFixed>>

NextThreads ==
    \/ UpstreamChanges
    \/ \E t \in Threads, f \in BOOLEAN : StartDiscover(t, f)
    \/ \E t \in Threads : ProbeAnswered(t)
    \/ \E t \in Threads : BootstrapAnswered(t)
    \/ \E t \in Threads : ListAnswered(t)
    \/ \E t \in Threads : StoreTool(t)
    \/ \E t \in Threads : UpdateCacheTools(t)
    \/ \E t \in Threads : UpdateCacheStamp(t)
    \/ \E t \in Threads : Read(t)

SpecThreads == InitThreads /\ [][NextThreads]_vars

\* ------------------------------------------------------- claims, threads
\* the threads that have a request of a kind in flight to "A"
InFlight(at) == {t \in Threads : pc[t].at = at}

\* C19: for each server at most one bootstrap and at most one health probe
\* is in flight at any time, whichever threads run discover_tools.
C19_OneBootstrapOneProbe ==
    /\ Cardinality(InFlight("bootstrap")) <= 1
    /\ Cardinality(InFlight("probe")) <= 1

\* tools_by_id and the cache entry of "A" once the discovery of a thread is
\* complete
PostDiscovery(w) ==
    [tools |-> RegisterTools(w.got, "A", w.pre.tools), cache |-> w.got]

\* C20: while one thread is storing the tools of a discovery of "A", a
\* reader on a thread that has discovered nothing finds tools_by_id and the
\* cache entry of "A" either both as they were before the discovery or both
\* as they are after it.
C20_ReaderSeesOldOrNew ==
    (/\ call.op \in {"read", "cached"}
     /\ pc[call.by].runs = 0
     /\ call.writer.at \in {"store", "stamp"}) =>
        call.seen \in {call.writer.pre, PostDiscovery(call.writer)}

\* ------------------------------------------------------ the refresh worker
MaxStarts == 2          \* worker threads created in one run
MaxCalls == 2           \* calls of start/stop one caller makes in one run

JoinTimeout == 5        \* self._refresh_thread.join(timeout=5), in seconds

\* the threads that call start_auto_refresh and stop_auto_refresh
Callers == {"c1", "c2"}

\* the n-th Thread object that start_auto_refresh creates
WorkerId(n) == "w" \o ToString(n)

WorkerIds == {WorkerId(n) : n \in 1..(MaxStarts + 1)}

\* a caller between two calls, after n calls
IdleCaller(n) ==
    [kind |-> "caller", at |-> "idle", outcome |-> None, waited |-> 0,
     joins |-> None, n |-> n, signalled |-> FALSE]

\* threading.Thread(target=refresh_loop).start(): the worker is at the
\* test of its while loop
NewWorker ==
    [kind |-> "worker", at |-> "head", outcome |-> None, waited |-> 0,
     joins |-> None, n |-> 0, signalled |-> FALSE]

\* Thread.is_alive() of self._refresh_thread
IsAlive(th) == th # None /\ pc[th].at # "dead"

\* the starts that have passed the test of start_auto_refresh and have not
\* yet created their thread
Pending == {c \in Callers : pc[c].at = "start_checked"}

\* ToolRetrievalManager.__init__: no worker, _stop_refresh = False
InitWorker ==
    /\ phase = "started"
    /\ health = [s \in Servers |-> TRUE]
    /\ listOk = [s \in Servers |-> TRUE]
    /\ upstream = [s \in Servers |-> InitListing(s)]
    /\ envChanges = 0
    /\ category = [s \in Servers |-> None]
    /\ tags = [s \in Servers |-> {}]
    /\ tools = EmptyMap
    /\ tools_cache = EmptyMap
    /\ cache_timestamps = EmptyMap
    /\ store = EmptyMap
    /\ last = Idle
    /\ servers = EmptyMap
    /\ up = None
    /\ hist = None
    /\ call = NoCall
    /\ config = <<>>
    /\ pc = [c \in Callers |-> IdleCaller(0)]
    /\ refresher = [stop_refresh |-> FALSE, refresh_thread |-> None, started |-> 0]

workerFixed ==
    <<phase, health, listOk, upstream, envChanges, category, tags, mgrVars, store,
      last, servers, up, hist, call, config>>

\* start_auto_refresh up to its test: a worker that is alive makes it return
StartCheck(c) ==
    /\ pc[c].at = "idle"
    /\ pc[c].n < MaxCalls
    /\ refresher.started + Cardinality(Pending) < MaxStarts
    /\ pc' = [pc EXCEPT ![c] =
                  IF IsAlive(refresher.refresh_thread)
                  THEN IdleCaller(pc[c].n + 1)
                  ELSE [IdleCaller(pc[c].n + 1) EXCEPT !.at = "start_checked"]]
    /\ UNCHANGED <<refresher, workerFixed>>

\* start_auto_refresh after its test: _stop_refresh = False, the thread is
\* created, kept in _refresh_thread and started
StartCreate(c) ==
    /\ pc[c].at = "start_checked"
    /\ refresher' = [stop_refresh |-> FALSE,
                     refresh_thread |-> WorkerId(refresher.started + 1),
                     started |-> refresher.started + 1]
    /\ pc' = Put([pc EXCEPT ![c].at = "idle"],
                 WorkerId(refresher.started + 1), NewWorker)
    /\ UNCHANGED workerFixed

\* the threads once stop_auto_refresh has been called: every worker that
\* is alive has been asked to stop
Signalled(threads) ==
    [t \in DOMAIN threads |->
        IF threads[t].kind = "worker" /\ threads[t].at # "dead"
        THEN [threads[t] EXCEPT !.signalled = TRUE] ELSE threads[t]]

\* stop_auto_refresh up to the join: _stop_refresh = True
StopSet(c) ==
    /\ pc[c].at = "idle"
    /\ pc[c].n < MaxCalls
    /\ refresher' = [refresher EXCEPT !.stop_refresh = TRUE]
    /\ pc' = [Signalled(pc) EXCEPT ![c] =
                  IF refresher.refresh_thread = None
                  THEN IdleCaller(pc[c].n + 1)
                  ELSE [IdleCaller(pc[c].n + 1) EXCEPT
                            !.at = "joining", !.joins = refresher.refresh_thread]]
    /\ UNCHANGED workerFixed

\* a second passes while a caller waits in join
JoinTick(c) ==
    /\ pc[c].at = "joining"
    /\ pc[pc[c].joins].at # "dead"
    /\ pc[c].waited < JoinTimeout
    /\ pc' = [pc EXCEPT ![c].waited = @ + 1]
    /\ UNCHANGED <<refresher, workerFixed>>

\* join returns: the thread has ended or the timeout has passed
JoinReturn(c) ==
    /\ pc[c].at = "joining"
    /\ pc[pc[c].joins].at = "dead" \/ pc[c].waited = JoinTimeout
    /\ pc' = [pc EXCEPT ![c].at = "idle"]
    /\ UNCHANGED <<refresher, workerFixed>>

\* refresh_loop: while not self._stop_refresh; the thread ends when the
\* test fails
LoopHead(w) ==
    /\ w \in DOMAIN pc
    /\ pc[w].at = "head"
    /\ pc' = [pc EXCEPT ![w] =
                  IF refresher.stop_refresh
                  THEN [@ EXCEPT !.at = "dead", !.outcome = "stopped"]
                  ELSE [@ EXCEPT !.at = "sleeping"]]
    /\ UNCHANGED <<refresher, workerFixed>>

\* a wake that refreshes whatever _stop_refresh says
WakeIgnoresStop(w) ==
    /\ w \in DOMAIN pc
    /\ pc[w].at = "sleeping"
    /\ pc' = [pc EXCEPT ![w].at = "refreshing"]
    /\ UNCHANGED <<refresher, workerFixed>>

\* refresh_loop: time.sleep returns; if not self._stop_refresh the
\* incremental refresh begins
Wake(w) ==
    /\ w \in DOMAIN pc
    /\ pc[w].at = "sleeping"
    /\ pc' = [pc EXCEPT ![w].at = IF refresher.stop_refresh THEN "head" ELSE "refreshing"]
    /\ UNCHANGED <<refresher, workerFixed>>

\* refresh_index_incremental returns
RefreshReturns(w) ==
    /\ w \in DOMAIN pc
    /\ pc[w].at = "refreshing"
    /\ pc' = [pc EXCEPT ![w].at = "head", ![w].outcome = "returned"]
    /\ UNCHANGED <<refresher, workerFixed>>

\* an exception that ends the thread
RefreshRaisesKills(w) ==
    /\ w \in DOMAIN pc
    /\ pc[w].at = "refreshing"
    /\ pc' = [pc EXCEPT ![w].at = "dead", ![w].outcome = "raised"]
    /\ UNCHANGED <<refresher, workerFixed>>

\* refresh_index_incremental raises: except Exception logs it and the loop
\* goes on
RefreshRaises(w) ==
    /\ w \in DOMAIN pc
    /\ pc[w].at = "refreshing"
    /\ pc' = [pc EXCEPT ![w].at = "head", ![w].outcome = "raised"]
    /\ UNCHANGED <<refresher, workerFixed>>

\* the steps of one worker thread
WorkerStep(w) ==
    \/ LoopHead(w)
    \/ Wake(w)
    \/ RefreshReturns(w)
    \/ RefreshRaises(w)

NextWorker ==
    \/ \E c \in Callers : StartCheck(c)
    \/ \E c \in Callers : StartCreate(c)
    \/ \E c \in Callers : StopSet(c)
    \/ \E c \in Callers : JoinTick(c)
    \/ \E c \in Callers : JoinReturn(c)
    \/ \E w \in WorkerIds : WorkerStep(w)

SpecWorker == InitWorker /\ [][NextWorker]_vars

\* every worker thread that can run is scheduled, and its sleep ends
SpecWorkerFair == SpecWorker /\ \A w \in WorkerIds : WF_vars(WorkerStep(w))

\* ------------------------------------------------ claims, refresh worker
\* the last incremental refresh of a worker ended with an exception
Raised(w) == w \in DOMAIN pc /\ pc[w].outcome = "raised"

\* a worker is inside refresh_index_incremental
Refreshing(w) == w \in DOMAIN pc /\ pc[w].at = "refreshing"

\* C21: an exception raised by an incremental refresh inside the loop does
\* not end the worker: unless stop is requested, the worker sleeps again and
\* refreshes again at its next wake.
C21_WorkerSurvivesException ==
    \A w \in WorkerIds :
        Raised(w) ~> (Refreshing(w) \/ refresher.stop_refresh)

\* a worker is refreshing again after a refresh that raised
C21_Witness ==
    \E w \in WorkerIds : Raised(w) /\ Refreshing(w) /\ ~refresher.stop_refresh

\* the workers that have been asked to stop
Stopping == {w \in WorkerIds : w \in DOMAIN pc /\ pc[w].signalled}

\* C22: once stop_auto_refresh has been called, a worker starts no new
\* incremental refresh: a sleeping worker goes from its wake to the exit
\* without refreshing, a refresh in progress is left to end by itself, and
\* the caller waits in join for at most the 5 s of the deadline.
C22_StopIsCooperative ==
    [][/\ \A w \in Stopping :
             /\ pc[w].at # "refreshing" => pc'[w].at # "refreshing"
             /\ pc[w].at = "sleeping" => pc'[w].at \in {"sleeping", "head"}
             /\ pc[w].at = "head" => pc'[w].at \in {"head", "dead"}
             /\ pc[w].at = "refreshing" => pc'[w].at \in {"refreshing", "head"}
       /\ \A c \in Callers :
             /\ pc'[c].waited <= JoinTimeout
             /\ (pc[c].at = "joining" /\ pc[c].waited = JoinTimeout
                    /\ pc'[c] # pc[c]) => pc'[c].at = "idle"]_vars

\* the worker threads that are alive
Alive == {w \in WorkerIds : w \in DOMAIN pc /\ pc[w].at # "dead"}

\* C23: at most one refresh worker is alive at any time, whatever the order
\* and interleaving of the start_auto_refresh and stop_auto_refresh calls.
C23_AtMostOneWorker == Cardinality(Alive) <= 1

\* ------------------------------------------------------------ convergence
\* the gateway together with its refresh worker: the store answers every
\* operation of a refresh and stop_auto_refresh is never called
TheWorker == WorkerId(1)

InitConverge ==
    /\ phase = "new"
    /\ health = [s \in Servers |-> TRUE]
    /\ listOk = [s \in Servers |-> TRUE]
    /\ upstream = [s \in Servers |-> InitListing(s)]
    /\ envChanges = 0
    /\ category = [s \in Servers |-> None]
    /\ tags = [s \in Servers |-> {}]
    /\ tools = EmptyMap
    /\ tools_cache = EmptyMap
    /\ cache_timestamps = EmptyMap
    /\ store = [k \in {OldDoc.tool_id} |-> OldDoc]
    /\ last = Idle
    /\ servers = EmptyMap
    /\ up = None
    /\ hist = None
    /\ call = None
    /\ config = <<>>
    /\ pc = [w \in {TheWorker} |-> NewWorker]
    /\ refresher = [stop_refresh |-> FALSE, refresh_thread |-> TheWorker, started |-> 1]

\* a refresh cycle during which no operation of the store succeeds
RefreshCycleStoreDown(w) ==
    /\ pc[w].at = "refreshing"
    /\ RefreshCall(FALSE)
    /\ pc' = [pc EXCEPT ![w].at = "head", ![w].outcome = "returned"]
    /\ UNCHANGED <<servers, up, hist, call, config, refresher>>

\* refresh_loop: self.refresh_index_incremental() is called and returns
RefreshCycle(w) ==
    /\ pc[w].at = "refreshing"
    /\ RefreshCall(TRUE)
    /\ pc' = [pc EXCEPT ![w].at = "head", ![w].outcome = "returned"]
    /\ UNCHANGED <<servers, up, hist, call, config, refresher>>

\* what RefreshCycle does to the position of the worker
RefreshCycleReturns(w) ==
    /\ phase = "started"
    /\ pc[w].at = "refreshing"
    /\ pc' = [pc EXCEPT ![w].at = "head", ![w].outcome = "returned"]

NextConverge ==
    \/ \E s \in Servers : SetHealth(s)
    \/ \E s \in Volatile : SetListOk(s)
    \/ \E s \in Volatile, n \in ToolNames : UpstreamAddTool(s, n)
    \/ \E s \in Volatile, i \in 1..Cardinality(ToolNames) : UpstreamRemoveTool(s, i)
    \/ \E s \in Volatile, i \in 1..Cardinality(ToolNames), d \in Descriptions :
          UpstreamChangeDescription(s, i, d)
    \/ Tick
    \/ Construct
    \/ \E s \in Servers \cup {None}, f \in BOOLEAN : Discover(s, f)
    \/ \E ok \in BOOLEAN : Startup(ok)
    \/ \E q \in ToolNames, k \in TopKs : Search(q, k)
    \/ phase = "started" /\ LoopHead(TheWorker)
    \/ phase = "started" /\ Wake(TheWorker)
    \/ RefreshCycle(TheWorker)

\* what Construct and Startup do to the phase of the gateway
ConstructReturns == phase = "new" /\ phase' = "constructed"
StartupReturns == phase = "constructed" /\ phase' = "started"

\* the gateway is constructed and started, time passes, the worker thread
\* is scheduled and its sleep ends.  A step that changes phase as
\* ConstructReturns or StartupReturns does is a Construct or a Startup step,
\* a step that changes pc as RefreshCycleReturns does is a RefreshCycle
\* step, and each of these handlers is enabled exactly when its change of
\* phase or pc is.
SpecConverge ==
    /\ InitConverge
    /\ [][NextConverge]_vars
    /\ WF_phase(ConstructReturns)
    /\ WF_phase(StartupReturns)
    /\ WF_vars(Tick)
    /\ WF_vars(phase = "started" /\ LoopHead(TheWorker))
    /\ WF_vars(phase = "started" /\ Wake(TheWorker))
    /\ WF_pc(RefreshCycleReturns(TheWorker))

\* ----------------------------------------------------- claims, convergence
\* the servers that pass their health probe and answer tools/list
Listable == {s \in Servers : health[s] /\ listOk[s]}

\* the ToolInfo a discovery now would build from the listings
CurrentTools ==
    UNION {{MakeToolInfo(s, upstream[s][i]) : i \in 1..Len(upstream[s])} : s \in Listable}

\* tool_id -> tool_version computed from the current tools/list of every
\* healthy server
CurrentVersions ==
    [k \in {ToolId(ti) : ti \in CurrentTools} |->
        GenerateToolVersion(CHOOSE ti \in CurrentTools : ToolId(ti) = k)]

\* the store holds the current versions and a refresh has nothing to do
Converged ==
    /\ phase = "started"
    /\ GetToolVersions(store, TRUE) = CurrentVersions
    /\ last.op = "refresh" =>
          /\ last.stats.added = 0
          /\ last.stats.updated = 0
          /\ last.stats.removed = 0

\* C24: once the upstream listings and the health of the servers stop
\* changing, with the store answering, the tool_id -> tool_version map of
\* the store becomes the map computed from the current tools/list of every
\* healthy server after finitely many refresh cycles and stays so, the
\* refreshes reporting added = updated = removed = 0.
C24_StoreConverges == <>[]Converged

\* a refresh that had something to write has brought the store to the
\* current versions after the last change of the upstreams
C24_Witness ==
    /\ envChanges = MaxEnvChanges
    /\ last.op = "refresh"
    /\ last.stats.added + last.stats.updated + last.stats.removed > 0
    /\ GetToolVersions(store, TRUE) = CurrentVersions

\* ------------------------------------------------------ replies of tools/call
\* MCPToolCaller.call_tool from the moment requests.post is called: what it
\* returns for every kind of answer.  A returned string is a sequence of the
\* pieces the code concatenates; the texts of the source are in Chinese and
\* stand here in English.
ErrorPrefix == "error: "
UnknownError == "unknown error"
DetailsMark == ", details: "
SuccessDefault == "operation succeeded"
NoResultText == "done (no result)"

\* result["content"]: a list whose first element is an object with a text,
\* with a text that is JSON, without text; an empty list; a list of
\* strings; a string; a number
Contents == {Absent, "list_text", "list_json", "list_no_text", "list_empty",
             "list_of_strings", "string", "number"}

\* the "result" member of the reply: absent, null, a string or an object
NoResult ==
    [kind |-> "absent", content |-> Absent, size |-> Absent, success |-> Absent,
     message |-> Absent, files |-> Absent]

DictResults ==
    [kind : {"dict"}, content : Contents, size : {Absent, "12"},
     success : {Absent, "true"}, message : {Absent, "saved"},
     files : {Absent, "entries", "nameless_entries"}]

Results ==
    DictResults \cup {[NoResult EXCEPT !.kind = k] : k \in {"absent", "null", "text"}}

\* the "error" member of the reply: absent, null or an object
NoError == [kind |-> "absent", message |-> Absent, data |-> Absent]

Errors ==
    {NoError, [NoError EXCEPT !.kind = "null"]}
    \cup [kind : {"object"}, message : {Absent, "boom"}, data : {Absent, "trace"}]

\* the body of the HTTP answer
Bodies ==
    {[json |-> j, error |-> NoError, result |-> NoResult] : j \in {"not_json", "not_object"}}
    \cup [json : {"object"}, error : Errors, result : Results]

\* one call: the server it names, what the transport does, the status and
\* the body of the answer
Attempts ==
    [server : {"unregistered", "http", "sse"},
     transport : {"ok", "connection_error", "timeout"},
     status : {200, 404},
     body : Bodies]

\* a string call_tool returns
ErrorText(parts) ==
    [form |-> "error", parts |-> <<ErrorPrefix>> \o parts, value |-> NoResult]

PlainText(parts) == [form |-> "text", parts |-> parts, value |-> NoResult]

\* json.dumps(result, ensure_ascii=False, indent=2)
JsonDumps(result) == [form |-> "json", parts |-> <<>>, value |-> result]

\* an exception that leaves call_tool
ExceptionEscapes(e) == [form |-> "raised", parts |-> <<e>>, value |-> NoResult]

\* except Exception as e: return "错误: " + str(e)
ExceptException(e) == ErrorText(<<e>>)

\* except requests.exceptions.ConnectionError
ExceptConnectionError == ErrorText(<<"cannot connect to MCP server ", "url">>)

\* result["content"][0].get("text", "")
FirstText(content) ==
    IF content = "list_text" THEN "12:00"
    ELSE IF content = "list_json" THEN "[1]"
    ELSE ""

\* json.loads(content_text) succeeds
ParsesAsJson(text) == text = "[1]"

\* json.dumps(json.loads(content_text), indent=2)
Reformatted(text) == IF text = "[1]" THEN "[\n  1\n]" ELSE text

\* the branch of a result that holds "content"
FormatContent(result) ==
    IF result.content \in {"list_text", "list_json", "list_no_text"}
    THEN IF ParsesAsJson(FirstText(result.content))
         THEN PlainText(<<Reformatted(FirstText(result.content))>>)
         ELSE PlainText(<<FirstText(result.content)>>)
    ELSE IF result.content = "list_of_strings"
    THEN ExceptException("'str' object has no attribute 'get'")
    ELSE IF result.content = "string"
    THEN PlainText(<<"file content (",
                     IF result.size = Absent THEN "0" ELSE result.size,
                     " chars):\n", "content">>)
    ELSE JsonDumps(result)

\* the branch of a result that holds "files"
FormatFiles(result) ==
    IF result.files = "nameless_entries"
    THEN ExceptException("'name'")
    ELSE PlainText(<<"directory: ", "path", "\nfiles: ", "1", ", directories: ",
                     "0", "\n", "- name (size bytes)">>)

\* the formatting of result
FormatResult(result) ==
    IF result.kind = "null" THEN PlainText(<<NoResultText>>)
    ELSE IF result.kind = "text" THEN PlainText(<<"str(result)">>)
    ELSE IF result.content # Absent THEN FormatContent(result)
    ELSE IF result.success # Absent
    THEN PlainText(<<IF result.message = Absent THEN SuccessDefault
                     ELSE result.message>>)
    ELSE IF result.files # Absent THEN FormatFiles(result)
    ELSE JsonDumps(result)

\* result_data.get("result", {})
ResultOf(body) ==
    IF body.result.kind = "absent" THEN [NoResult EXCEPT !.kind = "dict"]
    ELSE body.result

\* the "error" member of the reply made into the returned string
FormatError(error) ==
    IF error.kind = "null"
    THEN ExceptException("'NoneType' object has no attribute 'get'")
    ELSE ErrorText(<<IF error.message = Absent THEN UnknownError ELSE error.message>>
                   \o (IF error.data = Absent THEN <<>> ELSE <<DetailsMark, error.data>>))

\* the body of a 200 answer made into the returned string
FormatBody(server, body) ==
    IF body.json = "not_json"
    THEN IF server = "sse"
         THEN ExceptException("no valid JSON data in the SSE response")
         ELSE ErrorText(<<"response is not valid JSON: ", "response.text[:200]">>)
    ELSE IF body.json = "not_object"
    THEN ExceptException("argument of type 'int' is not iterable")
    ELSE IF body.error.kind # "absent" THEN FormatError(body.error)
    ELSE FormatResult(ResultOf(body))

\* call_tool(server_id, tool_name, arguments)
CallToolReply(a) ==
    IF a.server = "unregistered"
    THEN ExceptException("'NoneType' object has no attribute 'requires_session'")
    ELSE IF a.transport = "connection_error" THEN ExceptConnectionError
    ELSE IF a.transport = "timeout" THEN ExceptException("timed out")
    ELSE IF a.status # 200
    THEN ErrorText(<<"HTTP ", ToString(a.status), ", response: ", "response.text[:200]">>)
    ELSE FormatBody(a.server, a.body)

NoReply == [form |-> "none", parts |-> <<>>, value |-> NoResult]

\* a call of call_tool is about to be made
InitReply ==
    /\ phase = "started"
    /\ health = [s \in Servers |-> TRUE]
    /\ listOk = [s \in Servers |-> TRUE]
    /\ upstream = [s \in Servers |-> InitListing(s)]
    /\ envChanges = 0
    /\ category = [s \in Servers |-> None]
    /\ tags = [s \in Servers |-> {}]
    /\ tools = EmptyMap
    /\ tools_cache = EmptyMap
    /\ cache_timestamps = EmptyMap
    /\ store = EmptyMap
    /\ last = Idle
    /\ servers = EmptyMap
    /\ up = None
    /\ hist = None
    /\ call \in {[op |-> "pending", attempt |-> a, out |-> NoReply] : a \in Attempts}
    /\ config = <<>>
    /\ pc = EmptyMap
    /\ refresher = None

\* call_tool returns
ReturnReply ==
    /\ call.op = "pending"
    /\ call' = [call EXCEPT !.op = "returned", !.out = CallToolReply(call.attempt)]
    /\ UNCHANGED <<phase, envVars, category, tags, mgrVars, store, last, servers,
                   up, hist, config, pc, refresher>>

NextReply == ReturnReply

SpecReply == InitReply /\ [][NextReply]_vars

\* ------------------------------------------------ claims, replies of tools/call
\* the returned string begins with the error prefix
BeginsWithErrorPrefix(out) ==
    /\ out.form \in {"error", "text"}
    /\ Len(out.parts) > 0
    /\ out.parts[1] = ErrorPrefix

\* the failures the claim lists
FailedAttempt(a) ==
    \/ a.server = "unregistered"
    \/ a.transport # "ok"
    \/ a.status # 200
    \/ a.body.json = "not_json"
    \/ a.body.error.kind = "object"

\* the answer is a 200 whose body is a JSON-RPC error object with a message
IsErrorObject(a) ==
    /\ a.server # "unregistered"
    /\ a.transport = "ok"
    /\ a.status = 200
    /\ a.body.json = "object"
    /\ a.body.error.kind = "object"
    /\ a.body.error.message # Absent

\* C25: call_tool never raises: for an unregistered server, a transport
\* failure, a non-success HTTP status, a body that is not JSON or a JSON-RPC
\* error object it returns a string that begins with the error prefix, and
\* for a JSON-RPC error object the string contains the upstream message.
C25_CallToolReturnsErrorText ==
    call.op = "returned" =>
        /\ call.out.form # "raised"
        /\ FailedAttempt(call.attempt) => BeginsWithErrorPrefix(call.out)
        /\ IsErrorObject(call.attempt) =>
              \E i \in 1..Len(call.out.parts) :
                  call.out.parts[i] = call.attempt.body.error.message

\* an error object with a message and details has been answered
C25_Witness ==
    /\ call.op = "returned"
    /\ IsErrorObject(call.attempt)
    /\ call.attempt.body.error.data # Absent
    /\ call.out.parts = <<ErrorPrefix, "boom", DetailsMark, "trace">>

\* call_tool has formatted the result of the reply
FormattedResult ==
    /\ call.op = "returned"
    /\ call.attempt.server # "unregistered"
    /\ call.attempt.transport = "ok"
    /\ call.attempt.status = 200
    /\ call.attempt.body.json = "object"
    /\ call.attempt.body.error.kind = "absent"
    /\ ResultOf(call.attempt.body).kind = "dict"

\* the reply of the first rule that matches, in the order: content is a
\* list whose first element has text; content is a string and size is
\* present; success; files; otherwise the result pretty-printed
FirstMatchingRule(result) ==
    IF result.content \in {"list_text", "list_json"} THEN FormatContent(result)
    ELSE IF result.content = "string" /\ result.size # Absent THEN FormatContent(result)
    ELSE IF result.success # Absent
    THEN PlainText(<<IF result.message = Absent THEN SuccessDefault
                     ELSE result.message>>)
    ELSE IF result.files # Absent THEN FormatFiles(result)
    ELSE JsonDumps(result)

\* C26: the reply for a dict result is that of the first rule whose
\* predicate matches (content list with text, content string with size,
\* success, files, pretty-print); a result whose content matches neither
\* content rule falls through to the success and files rules.
C26_FirstMatchingRuleWins ==
    FormattedResult /\ ResultOf(call.attempt.body).files # "nameless_entries" =>
        call.out = FirstMatchingRule(ResultOf(call.attempt.body))

\* ------------------------------------------------- listings that repeat a name
\* an upstream lists a second tool under a name it already lists
UpstreamRepeatTool(s, i, d) ==
    /\ EnvStep
    /\ i \in 1..Len(upstream[s])
    /\ upstream' = [upstream EXCEPT ![s] = Append(@, Tool(@[i].name, d))]
    /\ UNCHANGED <<health, listOk>>

\* the gateway before upstreams that may repeat a tool name in tools/list
NextRepeat ==
    \/ Next
    \/ \E s \in Volatile, i \in 1..Cardinality(ToolNames), d \in Descriptions :
          UpstreamRepeatTool(s, i, d)

SpecRepeat == Init /\ [][NextRepeat]_vars

\* ------------------------------------------ claims, listings that repeat a name
\* no two tools of a list have the same tool_id
NoRepeat(tl) ==
    \A i, j \in 1..Len(tl) : i # j => ToolId(tl[i]) # ToolId(tl[j])

\* the first tool of each tool_id in a list is the one registered
FirstIsRegistered(tl) ==
    \A i \in 1..Len(tl) :
        (\A j \in 1..(i - 1) : ToolId(tl[j]) # ToolId(tl[i])) =>
            /\ ToolId(tl[i]) \in DOMAIN tools
            /\ tools[ToolId(tl[i])] = tl[i]

\* C27: no discover_tools output, cache entry or batch handed to the store
\* holds two tools with the same tool_id; when a listing repeats a tool name
\* the duplicate is rejected at ingestion, neither kept nor overwriting the
\* earlier entry.
C27_DuplicatesRejected ==
    /\ \A s \in DOMAIN tools_cache : NoRepeat(tools_cache[s])
    /\ last.op \in Discovering =>
          /\ \A s \in DOMAIN last.ret : NoRepeat(last.ret[s])
          /\ \A s \in DOMAIN last.ret \cap last.listed : FirstIsRegistered(last.ret[s])
    /\ last.op = "startup" => NoRepeat(Flatten(last.ret, DOMAIN last.ret))

\* ------------------------------------------------ ids and names that hold ":"
\* server ids of mcpServers and tool names of the upstreams are strings the
\* code does not restrict: they may hold the separator of the registry key
KeyServers == {"a", "a:b", "b"}
KeyNames == {"c", "b:c"}

\* what a server may list: no, one or both names, in either order
KeyListings ==
    {<<>>} \cup {<<Tool(n, "d1")>> : n \in KeyNames}
           \cup {<<Tool(p[1], "d1"), Tool(p[2], "d1")>> :
                     p \in {q \in KeyNames \X KeyNames : q[1] # q[2]}}

\* the orders in which self.servers can hold the servers
KeyOrders ==
    {o \in [1..Cardinality(KeyServers) -> KeyServers] :
        \A i, j \in 1..Cardinality(KeyServers) : i # j => o[i] # o[j]}

\* the list of ToolInfo built from the reply of a server without category
\* and tags
ParseKeyedTools(s) ==
    [i \in 1..Len(upstream[s]) |->
        [name |-> upstream[s][i].name, description |-> upstream[s][i].description,
         server_id |-> s, category |-> None, tags |-> {}]]

RECURSIVE RegisterInOrder(_, _)
\* discover_tools(force_refresh=True) over healthy servers: the registry
\* after _discover_tools_from_server has run for each server in order
RegisterInOrder(order, t) ==
    IF order = <<>> THEN t
    ELSE RegisterInOrder(Tail(order),
                         RegisterTools(ParseKeyedTools(Head(order)), Head(order), t))

InitKeys ==
    /\ phase = "constructed"
    /\ health = [s \in KeyServers |-> TRUE]
    /\ listOk = [s \in KeyServers |-> TRUE]
    /\ upstream \in [KeyServers -> KeyListings]
    /\ envChanges = 0
    /\ category = [s \in KeyServers |-> None]
    /\ tags = [s \in KeyServers |-> {}]
    /\ tools = EmptyMap
    /\ tools_cache = EmptyMap
    /\ cache_timestamps = EmptyMap
    /\ store = EmptyMap
    /\ last = Idle
    /\ servers = EmptyMap
    /\ up = None
    /\ hist = None
    /\ call = None
    /\ config = <<>>
    /\ pc = EmptyMap
    /\ refresher = None

keysFixed ==
    <<phase, envVars, category, tags, store, servers, up, hist, call, config, pc,
      refresher>>

\* discover_tools(force_refresh=True), every server healthy and answering
DiscoverKeyed(order) ==
    /\ last.op = "none"
    /\ tools' = RegisterInOrder(order, tools)
    /\ tools_cache' = [s \in KeyServers |-> ParseKeyedTools(s)]
    /\ cache_timestamps' = [s \in KeyServers |-> 0]
    /\ last' = [Idle EXCEPT !.op = "discover", !.force = TRUE,
                            !.ret = [s \in KeyServers |-> ParseKeyedTools(s)],
                            !.listed = KeyServers]
    /\ UNCHANGED keysFixed

\* get_tool(server_id, tool_name) after a discovery, whose output the
\* record keeps
GetToolKeyed(server_id, tool_name) ==
    /\ last.op \in {"discover", "get_tool"}
    /\ last' = [last EXCEPT !.op = "get_tool", !.server = server_id,
                            !.query = tool_name,
                            !.found = GetTool(server_id, tool_name)]
    /\ UNCHANGED <<mgrVars, keysFixed>>

NextKeys ==
    \/ \E order \in KeyOrders : DiscoverKeyed(order)
    \/ \E s \in KeyServers, n \in KeyNames : GetToolKeyed(s, n)

SpecKeys == InitKeys /\ [][NextKeys]_vars

\* ----------------------------------------- claims, ids and names that hold ":"
\* the pair looked up is in the output of the discovery
PairDiscovered ==
    /\ last.op = "get_tool"
    /\ last.server \in DOMAIN last.ret
    /\ \E i \in 1..Len(last.ret[last.server]) :
          last.ret[last.server][i].name = last.query

\* C28: for every pair (server, tool) of a successful discover_tools output,
\* get_tool(server, tool) resolves through the key server ":" tool to a
\* record whose server_id is server and whose name is tool, for all server
\* ids and tool names, those that hold ":" included, however many servers
\* have been discovered.
C28_GetToolResolvesPair ==
    PairDiscovered =>
        /\ last.found # {}
        /\ \A r \in last.found : r.server_id = last.server /\ r.name = last.query

\* ------------------------------------------------- claims, stored versions
\* the version hashed from the declarative fields of a document
VersionOfDocument(doc) ==
    <<doc.tool_name, doc.tool_description, doc.server_id, doc.category, doc.tags>>

\* C29: for every document of the store, written by build_index or by
\* refresh_index_incremental, the version hash recomputed from the
\* document's own fields (tool_name, tool_description, tool_parameters,
\* server_id, category, sorted tags) is the stored tool_version.
C29_VersionMatchesDocument ==
    \A id \in DOMAIN store : VersionOfDocument(store[id]) = store[id].tool_version

\* ----------------------------------------------------------- search_tools
\* search_tools over texts made of letters, a text being the sequence of
\* its characters
MaxQueryLen == 2        \* characters of a query

Letters == {"a", "A", "b", "B"}

\* str.lower() on one character
LowerChar(c) == IF c = "A" THEN "a" ELSE IF c = "B" THEN "b" ELSE c

\* str.lower()
LowerText(text) == [i \in 1..Len(text) |-> LowerChar(text[i])]

\* needle in text
IsSubstring(needle, text) ==
    \E i \in 0..(Len(text) - Len(needle)) : SubSeq(text, i + 1, i + Len(needle)) = needle

Queries == UNION {[1..n -> Letters] : n \in 0..MaxQueryLen}
SearchTopKs == {0, 1, 2}
MinScores == {0, 1}

\* a document of the collection: the search text holds the name and the
\* description behind their labels
SearchDoc(server_id, key, name, description) ==
    [tool_id |-> ToolKey(server_id, key), tool_name |-> name,
     tool_description |-> description,
     search_text |-> <<":">> \o name \o <<"\n", ":">> \o description]

SearchDocs ==
    {SearchDoc("A", "ab", <<"a", "b">>, <<"B", "a">>),
     SearchDoc("A", "Ba", <<"B", "a">>, <<"a">>),
     SearchDoc("B", "b", <<"b">>, <<>>)}

\* the ToolInfo the manager may hold for the key of a document
SearchToolInfo(server_id, key) ==
    [name |-> key, description |-> "d1", server_id |-> server_id,
     category |-> None, tags |-> {}]

SearchPairs == {<<"A", "ab">>, <<"A", "Ba">>, <<"B", "b">>}

\* tool_id.split(":", 1)
SplitSearchId(tool_id) == CHOOSE p \in SearchPairs : ToolKey(p[1], p[2]) = tool_id

\* the orders in which collection.find({}) can return the documents
FindOrders ==
    {o \in [1..Cardinality(DOMAIN store) -> DOMAIN store] :
        \A i, j \in 1..Cardinality(DOMAIN store) : i # j => o[i] # o[j]}

\* the test of the filter loop on one document
MatchesQuery(query_lower, tool) ==
    \/ IsSubstring(query_lower, LowerText(tool.tool_name))
    \/ IsSubstring(query_lower, LowerText(tool.tool_description))
    \/ IsSubstring(query_lower, LowerText(tool.search_text))

RECURSIVE FilterLoop(_, _, _, _, _)
\* for tool in all_tools, from the i-th on: a match is appended, then
\* if len(results) >= top_k: break
FilterLoop(all_tools, i, query_lower, top_k, results) ==
    IF i > Len(all_tools) THEN results
    ELSE IF MatchesQuery(query_lower, all_tools[i])
    THEN IF Len(results) + 1 >= top_k
         THEN Append(results, all_tools[i])
         ELSE FilterLoop(all_tools, i + 1, query_lower, top_k,
                         Append(results, all_tools[i]))
    ELSE FilterLoop(all_tools, i + 1, query_lower, top_k, results)

RECURSIVE ResolveInOrder(_, _)
\* for result in results, from the i-th on: get_tool on the two parts of
\* the tool_id; a document the manager does not know is logged and left out
ResolveInOrder(results, i) ==
    IF i > Len(results) THEN <<>>
    ELSE (IF GetTool(SplitSearchId(results[i].tool_id)[1],
                     SplitSearchId(results[i].tool_id)[2]) = {}
          THEN <<>>
          ELSE <<tools[results[i].tool_id]>>)
         \o ResolveInOrder(results, i + 1)

\* search_tools(query, top_k, min_score) on what get_all_tools returns;
\* min_score is not read
SearchTools(all_tools, query, top_k, min_score) ==
    ResolveInOrder(FilterLoop(all_tools, 1, LowerText(query), top_k, <<>>), 1)

\* get_all_tools when find returns the documents in the given order
GetAllTools(order) == [i \in 1..Len(order) |-> store[order[i]]]

NoSearch == [op |-> "none", query |-> <<>>, top_k |-> 0, min_score |-> 0,
             order |-> <<>>, found |-> <<>>]

\* a store and a manager that hold some of the documents and of the tools
InitSearch ==
    /\ phase = "started"
    /\ health = [s \in Servers |-> TRUE]
    /\ listOk = [s \in Servers |-> TRUE]
    /\ upstream = [s \in Servers |-> InitListing(s)]
    /\ envChanges = 0
    /\ category = [s \in Servers |-> None]
    /\ tags = [s \in Servers |-> {}]
    /\ \E ps \in SUBSET SearchPairs :
          tools = [k \in {ToolKey(p[1], p[2]) : p \in ps} |->
                      SearchToolInfo(SplitSearchId(k)[1], SplitSearchId(k)[2])]
    /\ tools_cache = EmptyMap
    /\ cache_timestamps = EmptyMap
    /\ \E ds \in SUBSET SearchDocs :
          store = [k \in {d.tool_id : d \in ds} |->
                      CHOOSE d \in ds : d.tool_id = k]
    /\ last = Idle
    /\ servers = EmptyMap
    /\ up = None
    /\ hist = None
    /\ call = NoSearch
    /\ config = <<>>
    /\ pc = EmptyMap
    /\ refresher = None

\* search_tools as load_tools_by_retrieval calls it
SearchCall(order, query, top_k, min_score) ==
    /\ call.op = "none"
    /\ call' = [op |-> "search", query |-> query, top_k |-> top_k,
                min_score |-> min_score, order |-> order,
                found |-> SearchTools(GetAllTools(order), query, top_k, min_score)]
    /\ UNCHANGED <<phase, envVars, category, tags, mgrVars, store, last, servers,
                   up, hist, config, pc, refresher>>

\* search_tools while the store cannot be read: get_all_tools returns []
SearchStoreDown(query, top_k, min_score) ==
    /\ call.op = "none"
    /\ call' = [op |-> "search_store_down", query |-> query, top_k |-> top_k,
                min_score |-> min_score, order |-> <<>>,
                found |-> SearchTools(<<>>, query, top_k, min_score)]
    /\ UNCHANGED <<phase, envVars, category, tags, mgrVars, store, last, servers,
                   up, hist, config, pc, refresher>>

\* one call of search_tools is looked at
NextSearch ==
    \/ /\ call.op = "none"
       /\ \E order \in FindOrders, query \in Queries, top_k \in SearchTopKs,
             min_score \in MinScores : SearchCall(order, query, top_k, min_score)
    \/ /\ call.op = "none"
       /\ \E query \in Queries, top_k \in SearchTopKs, min_score \in MinScores :
             SearchStoreDown(query, top_k, min_score)

SpecSearch == InitSearch /\ [][NextSearch]_vars

\* ---------------------------------------------------- claims, search_tools
\* the text holds the query, letters compared without their case
ContainsIgnoringCase(text, query) ==
    \E i \in 0..(Len(text) - Len(query)) :
        \A j \in 1..Len(query) : LowerChar(text[i + j]) = LowerChar(query[j])

\* C30: search_tools(query, top_k) returns at most top_k ToolInfos; each is
\* the current registry entry of a stored document whose tool_name,
\* tool_description or search_text contains the query case-insensitively;
\* the min_score argument does not change the result.
C30_SearchIsBoundedSubstringMatch ==
    call.op = "search" =>
        /\ Len(call.found) <= call.top_k
        /\ \A i \in 1..Len(call.found) :
              \E id \in DOMAIN store :
                  /\ id \in DOMAIN tools
                  /\ call.found[i] = tools[id]
                  /\ \/ ContainsIgnoringCase(store[id].tool_name, call.query)
                     \/ ContainsIgnoringCase(store[id].tool_description, call.query)
                     \/ ContainsIgnoringCase(store[id].search_text, call.query)
        /\ \A m \in MinScores :
              SearchTools(GetAllTools(call.order), call.query, call.top_k, m) = call.found

\* ------------------------------------------------- get_mcp_server_tools
\* MongoDBClient.get_tools_by_server: the documents of one server, [] when
\* the store cannot be read
GetToolsByServer(col, server_id, ok) ==
    IF ok THEN {col[id] : id \in {k \in DOMAIN col : col[k].server_id = server_id}}
    ELSE {}

\* the name and description of each document found in the store
StoreToolData(docs) ==
    {[name |-> d.tool_name, description |-> d.tool_description] : d \in docs}

\* the name and description of each ToolInfo of a discovered list
RegistryToolData(tl) ==
    {[name |-> tl[i].name, description |-> tl[i].description] : i \in 1..Len(tl)}

\* the tool get_mcp_server_tools(server_id) of the agent graph: an unknown
\* server is an error; the documents of the store are the listing when there
\* are any; otherwise discover_tools(server_id, force_refresh=False) is asked
\* and a server missing from its result is an error
GetMcpServerTools(server_id, ok) ==
    /\ phase = "started"
    /\ IF server_id \notin Servers
       THEN /\ last' = [Idle EXCEPT !.op = "server_tools_error", !.server = server_id,
                                    !.storeOk = ok, !.pre = Pre]
            /\ UNCHANGED mgrVars
       ELSE LET mongo_tools == GetToolsByServer(store, server_id, ok)
            IN  IF mongo_tools # {}
                THEN /\ last' = [Idle EXCEPT !.op = "server_tools", !.server = server_id,
                                             !.storeOk = ok, !.pre = Pre,
                                             !.found = StoreToolData(mongo_tools)]
                     /\ UNCHANGED mgrVars
                ELSE LET d == DiscoverTools(MgrState, server_id, FALSE)
                     IN  /\ tools' = d.tools
                         /\ tools_cache' = d.tools_cache
                         /\ cache_timestamps' = d.cache_timestamps
                         /\ IF server_id \notin DOMAIN d.ret
                            THEN last' = [Idle EXCEPT !.op = "server_tools_error",
                                                      !.server = server_id,
                                                      !.storeOk = ok, !.pre = Pre,
                                                      !.listed = d.listed]
                            ELSE last' = [Idle EXCEPT !.op = "server_tools",
                                                      !.server = server_id,
                                                      !.storeOk = ok, !.pre = Pre,
                                                      !.ret = d.ret, !.listed = d.listed,
                                                      !.found = RegistryToolData(d.ret[server_id])]
    /\ UNCHANGED <<phase, envVars, category, tags, store, auxVars>>

\* the gateway with the agent asking for the tools of one server
NextServerTools ==
    \/ Next
    \/ \E s \in Servers \cup {OldServer}, ok \in BOOLEAN : GetMcpServerTools(s, ok)

SpecServerTools == Init /\ [][NextServerTools]_vars

\* ----------------------------------------- claims, get_mcp_server_tools
\* the listing came from the documents of the store
AnsweredFromStore ==
    last.op = "server_tools" /\ last.storeOk /\ last.ret = EmptyMap

\* C31: get_mcp_server_tools(server_id) never returns a tool listing for a
\* server that is failing its health probe at the time of the call, whether
\* the listing is answered from the store or from the registry.
C31_NoListingForUnhealthyServer ==
    last.op = "server_tools" => CheckServerHealth(last.server)

\* the part of C31 that holds: a listing answered by discover_tools is the
\* listing of a server that passes its probe
C31_RegistryListingIsOfHealthyServer ==
    last.op = "server_tools" /\ ~AnsweredFromStore => CheckServerHealth(last.server)

\* a listing was answered by discover_tools
C31_Witness ==
    last.op = "server_tools" /\ ~AnsweredFromStore

\* --------------------------------- claims, the probe of a server with a session
\* check_server_health has probed a server that held a session id
ProbedWithSession ==
    /\ call.op = "health"
    /\ call.server \in DOMAIN servers
    /\ servers[call.server].requires_session
    /\ call.pre.servers[call.server].session_id # None

\* what the upstream answered the first request of the probe
FirstProbeAnswer ==
    Answer([up EXCEPT !.accepts = call.pre.accepts], call.reqs[1].sid)

\* the requests of the probe after the first: a bootstrap, then one tools/list
\* whose answer is the verdict
RetriedOnce ==
    /\ Len(call.reqs) >= 3
    /\ call.reqs[2].method \in {"initialize", "GET"}
    /\ call.reqs[Len(call.reqs)].method = "tools/list"
    /\ \A i \in 2..(Len(call.reqs) - 1) : call.reqs[i].method # "tools/list"
    /\ call.ok = (Answer(up, call.reqs[Len(call.reqs)].sid) = "ok")

\* the bootstrap that followed the failed request failed too, and nothing
\* was retried
BootstrapFailed ==
    /\ Len(call.reqs) >= 2
    /\ call.reqs[2].method \in {"initialize", "GET"}
    /\ \A i \in 2..Len(call.reqs) : call.reqs[i].method # "tools/list"
    /\ ~call.ok

\* C32: check_server_health for a streamable or sse server that holds a
\* session sends tools/list; if it succeeds the server is healthy; on any
\* failure (network error or non-success status) it re-bootstraps the session
\* and retries tools/list once, the verdict being the outcome of the retry.
C32_ProbeRetriesAfterBootstrap ==
    ProbedWithSession =>
        /\ call.reqs[1].method = "tools/list"
        /\ IF FirstProbeAnswer = "ok"
           THEN call.ok /\ Len(call.reqs) = 1
           ELSE RetriedOnce \/ BootstrapFailed

\* what the probe does: one tools/list; a status is the verdict, 200 or not,
\* with nothing else sent; a request that raises is followed by a bootstrap
\* whose flag is the verdict, and tools/list is not sent again
C32_ProbeAsCoded ==
    ProbedWithSession =>
        /\ call.reqs[1].method = "tools/list"
        /\ \A i \in 2..Len(call.reqs) : call.reqs[i].method # "tools/list"
        /\ FirstProbeAnswer = "ok" => call.ok /\ Len(call.reqs) = 1
        /\ FirstProbeAnswer = "http_error" => ~call.ok /\ Len(call.reqs) = 1
        /\ FirstProbeAnswer = "conn_error" =>
              Len(call.reqs) >= 2 /\ call.reqs[2].method \in {"initialize", "GET"}

\* ------------------------------------------ replies of an sse upstream
\* the most lines an event stream of the model holds
MaxFrames == 2

\* the "id" of the tools/list and of the tools/call request
RequestId == 1

\* the "id" values a JSON-RPC message of the stream may carry
FrameIds == {RequestId, 2}

\* the statuses the POST to the message endpoint may be answered with
SseStatuses == {200, 202, 500}

\* one line of the event stream: a line of another field ("event: ..."), a
\* data: line that is no JSON, or a data: line holding a JSON-RPC message
\* with a result or an error
SseLines ==
    [field : {"event"}, json : {FALSE}, id : {RequestId}, member : {"result"},
     value : {"x"}]
    \cup [field : {"data"}, json : {FALSE}, id : {RequestId}, member : {"result"},
          value : {"x"}]
    \cup [field : {"data"}, json : {TRUE}, id : FrameIds, member : {"result", "error"},
          value : {"x", "y"}]

RECURSIVE SseStreams(_)
SseStreams(n) ==
    IF n = 0 THEN {<<>>}
    ELSE SseStreams(n - 1)
         \cup {Append(st, l) : st \in SseStreams(n - 1), l \in SseLines}

\* the exchanges with an sse server that has its message endpoint
SseExchanges ==
    [method : {"tools/list", "tools/call"}, status : SseStatuses,
     lines : SseStreams(MaxFrames)]

\* what the caller is left with
SseFailure(text) == [ok |-> FALSE, from |-> 0, member |-> text, value |-> None]
SseMessage(lines, i) ==
    [ok |-> lines[i].member = "result", from |-> i, member |-> lines[i].member,
     value |-> lines[i].value]

\* for line in response.iter_lines(): the first line that starts with data:
\* and that json.loads accepts; 0 when the stream ends without one
RECURSIVE FirstJsonLine(_, _)
FirstJsonLine(lines, i) ==
    IF i > Len(lines) THEN 0
    ELSE IF lines[i].field = "data" /\ lines[i].json THEN i
    ELSE FirstJsonLine(lines, i + 1)

\* a reader that also skips the messages of another id
RECURSIVE FirstAnswerLine(_, _)
FirstAnswerLine(lines, i) ==
    IF i > Len(lines) THEN 0
    ELSE IF lines[i].field = "data" /\ lines[i].json /\ lines[i].id = RequestId THEN i
    ELSE FirstAnswerLine(lines, i + 1)

\* the message read from the stream, or the failure of finding none
ReadSseStream(lines) ==
    IF FirstJsonLine(lines, 1) = 0 THEN SseFailure("no_json")
    ELSE SseMessage(lines, FirstJsonLine(lines, 1))

\* call_tool on the answer of an sse server: any status but 200 is an error
CallToolSse(status, lines) ==
    IF status # 200 THEN SseFailure("http") ELSE ReadSseStream(lines)

\* _discover_tools_from_server on the answer of an sse server: 200 and 202
\* are read, any other status raises
DiscoverSse(status, lines) ==
    IF status \notin {200, 202} THEN SseFailure("http") ELSE ReadSseStream(lines)

SseReply(x) ==
    IF x.method = "tools/list" THEN DiscoverSse(x.status, x.lines)
    ELSE CallToolSse(x.status, x.lines)

\* a request to the sse server has been answered
InitSse ==
    /\ phase = "started"
    /\ health = [s \in Servers |-> TRUE]
    /\ listOk = [s \in Servers |-> TRUE]
    /\ upstream = [s \in Servers |-> InitListing(s)]
    /\ envChanges = 0
    /\ category = [s \in Servers |-> None]
    /\ tags = [s \in Servers |-> {}]
    /\ tools = EmptyMap
    /\ tools_cache = EmptyMap
    /\ cache_timestamps = EmptyMap
    /\ store = EmptyMap
    /\ last = Idle
    /\ servers = EmptyMap
    /\ up = None
    /\ hist = None
    /\ call \in {[op |-> "answered", exchange |-> x, out |-> SseFailure(None)] :
                 x \in SseExchanges}
    /\ config = <<>>
    /\ pc = EmptyMap
    /\ refresher = None

sseFixed == <<phase, envVars, category, tags, mgrVars, store, last, servers,
              up, hist, config, pc, refresher>>

\* _discover_tools_from_server has read the answer
DiscoverSseReturns ==
    /\ call.op = "answered"
    /\ call.exchange.method = "tools/list"
    /\ call' = [call EXCEPT !.op = "returned",
                            !.out = DiscoverSse(call.exchange.status, call.exchange.lines)]
    /\ UNCHANGED sseFixed

\* call_tool has read the answer
CallToolSseReturns ==
    /\ call.op = "answered"
    /\ call.exchange.method = "tools/call"
    /\ call' = [call EXCEPT !.op = "returned",
                            !.out = CallToolSse(call.exchange.status, call.exchange.lines)]
    /\ UNCHANGED sseFixed

NextSse == DiscoverSseReturns \/ CallToolSseReturns

SpecSse == InitSse /\ [][NextSse]_vars

\* ------------------------------------ claims, replies of an sse upstream
\* the same exchange answered with status 200
With200(x) == [x EXCEPT !.status = 200]

\* C33: for an sse server, a tools/call or tools/list POST answered with
\* HTTP 202 is treated as success exactly like HTTP 200, its SSE body being
\* read for the result, not as an error.
C33_AcceptedIsSuccess ==
    call.op = "returned" /\ call.exchange.status = 202 =>
        /\ call.out = SseReply(With200(call.exchange))
        /\ call.out.member # "http"

\* the half of C33 that holds: tools/list answered 202 is read as 200 is
C33_AcceptedListIsSuccess ==
    call.op = "returned" /\ call.exchange.status = 202
        /\ call.exchange.method = "tools/list" =>
            /\ call.out = SseReply(With200(call.exchange))
            /\ call.out.member # "http"

\* a tools/list answered 202 whose stream held a result
C33_Witness ==
    /\ call.op = "returned" /\ call.exchange.status = 202
    /\ call.exchange.method = "tools/list" /\ call.out.ok

\* C34: for an sse server, the result returned for a tools/list or
\* tools/call request is taken from the first data: frame that parses as
\* JSON and whose id equals the id of the request; frames that do not parse
\* or that carry a different id are skipped.
C34_AnswerMatchesRequestId ==
    call.op = "returned" /\ call.out.member # "http" =>
        /\ call.out.from = FirstAnswerLine(call.exchange.lines, 1)
        /\ call.out.from # 0 => call.exchange.lines[call.out.from].id = RequestId

\* the part of C34 that holds: the answer is the first data: line that
\* parses, lines of other fields and lines that do not parse being skipped
C34_AnswerIsFirstJsonLine ==
    call.op = "returned" /\ call.out.member # "http" =>
        /\ call.out.from = FirstJsonLine(call.exchange.lines, 1)
        /\ call.out.from # 0 =>
              /\ call.out.value = call.exchange.lines[call.out.from].value
              /\ \A i \in 1..(call.out.from - 1) :
                    ~(call.exchange.lines[i].field = "data" /\ call.exchange.lines[i].json)

\* the answer was read from the second line of a stream
C34_Witness ==
    call.op = "returned" /\ call.out.from = 2

\* --------------------------------------- the endpoint event of an sse server
\* the most path segments of a server url and of an endpoint path
MaxSegments == 2

\* a url or a path is the sequence of the pieces between its "/":
\* "https://h/mcp/sse" is <<"https:", "", "h", "mcp", "sse">> and
\* "/mcp/message" is <<"", "mcp", "message">>
Hosts == {"h", "sse.h"}
UrlSegments == {"mcp", "sse"}
PathSegments == {"api", "mcp", "message"}
EndpointSessionIds == {"s1", "s2"}

RECURSIVE SeqsUpTo(_, _)
\* the sequences over S of at most n elements
SeqsUpTo(S, n) ==
    IF n = 0 THEN {<<>>}
    ELSE SeqsUpTo(S, n - 1) \cup {Append(q, x) : q \in SeqsUpTo(S, n - 1), x \in S}

ServerUrls == {<<"https:", "", h>> \o p : h \in Hosts, p \in SeqsUpTo(UrlSegments, MaxSegments)}

\* the payload of the data: line: a path that starts with "/" and the query
\* ?sessionId=<id>, followed or not by another parameter
EndpointEvents ==
    [path : {<<"">> \o p : p \in SeqsUpTo(PathSegments, MaxSegments) \ {<<>>}},
     session : EndpointSessionIds, more : BOOLEAN, event_line : BOOLEAN]

\* the piece begins with the letters "sse", so that "/sse" is found before it
BeginsWithSse(piece) == piece \in {"sse", "sse.h"}

\* the places of a url where the text "/sse" is found
SsePlaces(url) == {i \in 2..Len(url) : BeginsWithSse(url[i])}

Last(S) == CHOOSE i \in S : \A j \in S : j <= i

\* server.url.rsplit('/sse', 1)[0]: the url up to the last "/sse", the whole
\* url when it holds none
RsplitSse(url) ==
    IF SsePlaces(url) = {} THEN url ELSE SubSeq(url, 1, Last(SsePlaces(url)) - 1)

\* f"{parsed.scheme}://{parsed.netloc}"
Origin(url) == SubSeq(url, 1, 3)

\* base_url + endpoint_path
Concat(base_url, endpoint_path) == base_url \o Tail(endpoint_path)

\* endpoint_path.startswith('/api/')
StartsWithApi(endpoint_path) == Len(endpoint_path) >= 3 /\ endpoint_path[2] = "api"

\* endpoint_url of _init_sse_server_session
EndpointUrl(url, endpoint_path) ==
    IF StartsWithApi(endpoint_path) THEN Concat(Origin(url), endpoint_path)
    ELSE Concat(RsplitSse(url), endpoint_path)

\* data.split('sessionId=')[1].split('&')[0]
EndpointSessionId(event) == event.session

\* a GET of the bootstrap has been answered with the endpoint event
InitEndpoint ==
    /\ phase = "constructed"
    /\ health = [s \in Servers |-> TRUE]
    /\ listOk = [s \in Servers |-> TRUE]
    /\ upstream = [s \in Servers |-> InitListing(s)]
    /\ envChanges = 0
    /\ category = [s \in Servers |-> None]
    /\ tags = [s \in Servers |-> {}]
    /\ tools = EmptyMap
    /\ tools_cache = EmptyMap
    /\ cache_timestamps = EmptyMap
    /\ store = EmptyMap
    /\ last = Idle
    /\ servers = EmptyMap
    /\ up = None
    /\ hist = None
    /\ call \in {[op |-> "connected", url |-> u, event |-> e,
                  session_id |-> None, sse_endpoint |-> <<>>] :
                 u \in ServerUrls, e \in EndpointEvents}
    /\ config = <<>>
    /\ pc = EmptyMap
    /\ refresher = None

\* _init_sse_server_session has read the stream and saved what it found
SseBootstrapReturns ==
    /\ call.op = "connected"
    /\ call' = [call EXCEPT !.op = "bootstrapped",
                            !.session_id = EndpointSessionId(call.event),
                            !.sse_endpoint = EndpointUrl(call.url, call.event.path)]
    /\ UNCHANGED sseFixed

NextEndpoint == SseBootstrapReturns

SpecEndpoint == InitEndpoint /\ [][NextEndpoint]_vars

\* ------------------------------- claims, the endpoint event of an sse server
\* C35: on SSE bootstrap, the first data: line whose payload is a relative
\* URL /.../message?sessionId=<id> yields session_id = <id> and
\* message_endpoint = the origin (scheme and host) of the server URL followed
\* by that path, for every server URL and every such path.
C35_EndpointIsOriginPlusPath ==
    call.op = "bootstrapped" =>
        /\ call.session_id = call.event.session
        /\ call.sse_endpoint = Origin(call.url) \o Tail(call.event.path)

\* the server urls for which the text before the last "/sse" is the origin
SseAtTopOfUrl(url) ==
    SsePlaces(url) # {} /\ Last(SsePlaces(url)) = 4

\* the part of C35 that holds: the session id always, and the endpoint for a
\* path under /api/ or a server url of the form origin/sse...
C35_EndpointIsOriginPlusPathForTopSse ==
    call.op = "bootstrapped" =>
        /\ call.session_id = call.event.session
        /\ StartsWithApi(call.event.path) \/ SseAtTopOfUrl(call.url) =>
              call.sse_endpoint = Origin(call.url) \o Tail(call.event.path)

\* a bootstrap on https://h/sse whose event names /mcp/message
C35_Witness ==
    /\ call.op = "bootstrapped"
    /\ call.url = <<"https:", "", "h", "sse">>
    /\ call.event.path = <<"", "mcp", "message">>

\* ------------------------------------------------- names of dynamic tools
\* the most characters of a server id, and of a tool name
MaxIdLen == 3
MaxNameLen == 2

\* the most servers declared in the configuration
MaxRegistered == 2

\* ids and names are sequences of characters; "_" may occur in both
NameChars == {"a", "_"}
Underscore == "_"

ServerIds == SeqsUpTo(NameChars, MaxIdLen) \ {<<>>}
DynamicToolNames == SeqsUpTo(NameChars, MaxNameLen)

\* the sets of server ids a configuration may declare
Registries ==
    {r \in SUBSET ServerIds : r # {} /\ Cardinality(r) <= MaxRegistered}

\* create_dynamic_tool: tool_name = f"{tool_info.server_id}_{tool_info.name}"
DynamicToolName(server_id, tool_name) == server_id \o <<Underscore>> \o tool_name

\* tool_name.startswith(sid + '_')
StartsWith(text, prefix) ==
    Len(prefix) <= Len(text) /\ SubSeq(text, 1, Len(prefix)) = prefix

\* the places of a text that hold "_"
UnderscorePlaces(text) == {i \in 1..Len(text) : text[i] = Underscore}

First(S) == CHOOSE i \in S : \A j \in S : i <= j

Unresolved == [ok |-> FALSE, server_id |-> <<>>, tool_name |-> <<>>]

\* test_tool_name_format: tool.name.split('_', 1), two parts and the first a
\* key of manager.servers
SplitAtFirstUnderscore(registered, name) ==
    IF UnderscorePlaces(name) = {} THEN Unresolved
    ELSE LET i == First(UnderscorePlaces(name))
         IN  [ok |-> SubSeq(name, 1, i - 1) \in registered,
              server_id |-> SubSeq(name, 1, i - 1),
              tool_name |-> SubSeq(name, i + 1, Len(name))]

\* the registered ids sid with tool_name.startswith(sid + '_')
PrefixServers(registered, name) ==
    {sid \in registered : StartsWith(name, sid \o <<Underscore>>)}

\* tool_node: the longest registered id that is followed by "_" at the start
\* of the name; resolved when the id and the rest are both non-empty
LongestPrefixServer(registered, name) ==
    IF PrefixServers(registered, name) = {} THEN Unresolved
    ELSE LET sid == CHOOSE s \in PrefixServers(registered, name) :
                        \A t \in PrefixServers(registered, name) : Len(t) <= Len(s)
             actual_tool_name == SubSeq(name, Len(sid) + 2, Len(name))
         IN  [ok |-> sid # <<>> /\ actual_tool_name # <<>>,
              server_id |-> sid, tool_name |-> actual_tool_name]

\* a tool of a registered server has been discovered
InitNames ==
    /\ phase = "constructed"
    /\ health = [s \in Servers |-> TRUE]
    /\ listOk = [s \in Servers |-> TRUE]
    /\ upstream = [s \in Servers |-> InitListing(s)]
    /\ envChanges = 0
    /\ category = [s \in Servers |-> None]
    /\ tags = [s \in Servers |-> {}]
    /\ tools = EmptyMap
    /\ tools_cache = EmptyMap
    /\ cache_timestamps = EmptyMap
    /\ store = EmptyMap
    /\ last = Idle
    /\ servers = EmptyMap
    /\ up = None
    /\ hist = None
    /\ call \in {[op |-> "discovered", registered |-> r, server_id |-> s,
                  tool_name |-> n, name |-> <<>>, out |-> Unresolved] :
                 r \in Registries, s \in ServerIds, n \in DynamicToolNames}
    /\ call.server_id \in call.registered
    /\ config = <<>>
    /\ pc = EmptyMap
    /\ refresher = None

\* create_dynamic_tool has named the tool
CreateDynamicTool ==
    /\ call.op = "discovered"
    /\ call' = [call EXCEPT !.op = "created",
                            !.name = DynamicToolName(call.server_id, call.tool_name)]
    /\ UNCHANGED sseFixed

\* test_tool_name_format has split the name
TestToolNameFormat ==
    /\ call.op = "created"
    /\ call' = [call EXCEPT !.op = "tested",
                            !.out = SplitAtFirstUnderscore(call.registered, call.name)]
    /\ UNCHANGED sseFixed

\* tool_node has resolved the name of a tool call
ToolNode ==
    /\ call.op = "created"
    /\ call' = [call EXCEPT !.op = "resolved",
                            !.out = LongestPrefixServer(call.registered, call.name)]
    /\ UNCHANGED sseFixed

NextNames == CreateDynamicTool \/ TestToolNameFormat \/ ToolNode

SpecNames == InitNames /\ [][NextNames]_vars

\* ------------------------------------------ claims, names of dynamic tools
\* the resolver gave back the pair the tool was built for
GaveBackThePair ==
    /\ call.out.ok
    /\ call.out.server_id \in call.registered
    /\ call.out.server_id = call.server_id
    /\ call.out.tool_name = call.tool_name

\* C36: every tool built by create_dynamic_tool for (server_id, tool_name)
\* is named server_id + '_' + tool_name, and resolving that name back (the
\* test splits at the first underscore; tool_node takes the longest
\* registered server id that is a prefix) yields a registered server id and
\* the original pair, for all registered server ids and tool names,
\* including ones that contain underscores.
C36_NameRoundTrip ==
    /\ call.op \in {"created", "tested", "resolved"} =>
          call.name = call.server_id \o <<Underscore>> \o call.tool_name
    /\ call.op \in {"tested", "resolved"} => GaveBackThePair

\* no other registered id followed by "_" begins the name of the tool
NoOtherPrefix ==
    PrefixServers(call.registered, call.name) = {call.server_id}

\* the round trip that does hold: the name is server_id + '_' + tool_name;
\* the split at the first underscore gives the pair back when the server id
\* holds no underscore; tool_node gives it back when the tool name is not
\* empty and no other registered id followed by "_" begins the name
C36_NameRoundTripWithoutClash ==
    /\ call.op \in {"created", "tested", "resolved"} =>
          call.name = call.server_id \o <<Underscore>> \o call.tool_name
    /\ call.op = "tested" /\ UnderscorePlaces(call.server_id) = {} => GaveBackThePair
    /\ call.op = "resolved" /\ call.tool_name # <<>> /\ NoOtherPrefix => GaveBackThePair

\* tool_node resolved a name built from an id and a tool name that both hold
\* an underscore
C36_Witness ==
    /\ call.op = "resolved" /\ GaveBackThePair
    /\ UnderscorePlaces(call.server_id) # {}
    /\ UnderscorePlaces(call.tool_name) # {}

\* --------------------------------------- claims, a start that follows a stop
\* start_auto_refresh called by c returns at its test, a worker being alive
StartReturnsAtTest(c) ==
    StartCheck(c) /\ pc'[c].at = "idle"

\* no other caller is inside start_auto_refresh or stop_auto_refresh
CallsAlone(c) == \A d \in Callers \ {c} : pc[d].at = "idle"

\* after the step _refresh_thread is alive and _stop_refresh is clear: the
\* worker goes on sleeping and refreshing
WorkerKeepsRunningAfter ==
    /\ refresher'.refresh_thread # None
    /\ pc'[refresher'.refresh_thread].at # "dead"
    /\ ~refresher'.stop_refresh

\* C37: start_auto_refresh called after stop_auto_refresh, at any moment
\* including while the previous worker is still sleeping or finishing a
\* refresh, leaves a live worker that keeps refreshing every interval until
\* the next stop_auto_refresh.
C37_StartLeavesRunningWorker ==
    [][\A c \in Callers :
          CallsAlone(c) /\ (StartReturnsAtTest(c) \/ StartCreate(c)) =>
              WorkerKeepsRunningAfter]_vars

\* the part of C37 that holds: a start that creates a thread leaves a live
\* worker with _stop_refresh clear
C37_CreatedWorkerRuns ==
    [][\A c \in Callers : StartCreate(c) => WorkerKeepsRunningAfter]_vars

\* a second worker has been created after the first was stopped and ended
C37_Witness ==
    /\ refresher.started = 2
    /\ pc[WorkerId(1)].at = "dead"
    /\ pc[WorkerId(2)].at = "refreshing"
    /\ ~refresher.stop_refresh

\* ------------------------------------------ claims, the counts of a refresh
\* C38: every count returned by refresh_index_incremental is non-negative
\* and bounded by its change set (added <= the detected added tools,
\* updated <= the detected updated tools, removed <= the detected removed
\* tools), including when the batch write fails or writes nothing.
C38_CountsWithinChangeSet ==
    last.op = "refresh" =>
        /\ last.stats.added \in 0..Cardinality(last.changes.added)
        /\ last.stats.updated \in 0..Cardinality(last.changes.updated)
        /\ last.stats.removed \in 0..Cardinality(last.changes.removed)

\* no count of a refresh is negative
C38_CountsNonNegative ==
    last.op = "refresh" =>
        last.stats.added >= 0 /\ last.stats.updated >= 0 /\ last.stats.removed >= 0

\* the part of C38 that holds: added, removed and unchanged are within
\* their change sets
C38_AddedAndRemovedWithinChangeSet ==
    last.op = "refresh" =>
        /\ last.stats.added \in 0..Cardinality(last.changes.added)
        /\ last.stats.removed \in 0..Cardinality(last.changes.removed)
        /\ last.stats.unchanged = Cardinality(last.changes.unchanged)

\* a refresh whose batch write failed with tools to add
C38_Witness ==
    last.op = "refresh" /\ ~last.storeOk /\ last.changes.added # {}

\* ------------------------------------- the cached path of two threads
\* the gateway is constructed and serving, the refresh worker started: "A"
\* is plain, its cache entry fresh or expired
InitCache ==
    /\ phase = "started"
    /\ health = [s \in Servers |-> TRUE]
    /\ listOk = [s \in Servers |-> TRUE]
    /\ upstream = [s \in Servers |-> IF s = "A" THEN ListingOld ELSE InitListing(s)]
    /\ envChanges = 0
    /\ category = [s \in Servers |-> None]
    /\ tags = [s \in Servers |-> {}]
    /\ store = EmptyMap
    /\ last = Idle
    /\ hist = None
    /\ config = <<>>
    /\ refresher = None
    /\ call = NoRead
    /\ pc = [t \in Threads |-> IdleThread(0)]
    /\ servers = [s \in {"A"} |-> MCPServer(s, "http")]
    /\ up = [issued |-> 0]
    /\ tools = ConstructedTools
    /\ tools_cache = [s \in {"A"} |-> ParseTools("A")]
    /\ cache_timestamps \in [{"A"} -> {0, Expired}]

cacheFixed ==
    <<phase, listOk, category, tags, store, last, hist, config, refresher, servers, up>>

\* "A" stops answering GET /health, or answers it again
HealthChanges ==
    /\ envChanges < MaxEnvChanges
    /\ envChanges' = envChanges + 1
    /\ health' = [health EXCEPT !["A"] = ~@]
    /\ call' = NoRead
    /\ UNCHANGED <<upstream, mgrVars, pc, cacheFixed>>

\* check_server_health of a thread returns False: discover_tools goes on to
\* _clear_cache
ProbeFails(t) ==
    /\ pc[t].at = "probe"
    /\ ~CheckServerHealth("A")
    /\ pc' = [pc EXCEPT ![t].at = "clear"]
    /\ call' = NoRead
    /\ UNCHANGED <<envChanges, health, upstream, mgrVars, cacheFixed>>

\* _clear_cache, first statement: del self.tools_cache[server_id]
ClearCacheTools(t) ==
    /\ pc[t].at = "clear"
    /\ tools_cache' = Without(tools_cache, "A")
    /\ pc' = [pc EXCEPT ![t].at = "clear_stamp"]
    /\ call' = NoRead
    /\ UNCHANGED <<envChanges, health, upstream, tools, cache_timestamps, cacheFixed>>

\* _clear_cache, second statement: del self.cache_timestamps[server_id];
\* the server is left out of the result
ClearCacheStamp(t) ==
    /\ pc[t].at = "clear_stamp"
    /\ cache_timestamps' = Without(cache_timestamps, "A")
    /\ pc' = [pc EXCEPT ![t] = IdleThread(pc[t].runs)]
    /\ call' = NoRead
    /\ UNCHANGED <<envChanges, health, upstream, tools, tools_cache, cacheFixed>>

\* check_server_health of a thread returns True and _is_cache_valid is
\* evaluated: the thread goes on to read the cache, or to send tools/list
CacheChecked(t) ==
    /\ pc[t].at = "probe"
    /\ CheckServerHealth("A")
    /\ pc' = [pc EXCEPT ![t].at = IF ~pc[t].force /\ IsCacheValid(cache_timestamps, "A")
                                  THEN "cached" ELSE "list",
                        ![t].pre = Snapshot(tools, tools_cache)]
    /\ call' = NoRead
    /\ UNCHANGED <<envChanges, health, upstream, mgrVars, cacheFixed>>

\* _get_tools_from_cache on the cached path: the thread reads the entry
\* as it is now and discover_tools returns it
CacheRead(t) ==
    /\ pc[t].at = "cached"
    /\ call' = [op |-> "cached", by |-> t, seen |-> Snapshot(tools, tools_cache),
                checked |-> pc[t].pre,
                writer |-> pc[CHOOSE u \in Threads : u # t]]
    /\ pc' = [pc EXCEPT ![t] = IdleThread(pc[t].runs)]
    /\ UNCHANGED <<envChanges, health, upstream, mgrVars, cacheFixed>>

NextCache ==
    \/ UpstreamChanges
    \/ HealthChanges
    \/ \E t \in Threads, f \in BOOLEAN : StartDiscover(t, f)
    \/ \E t \in Threads : ProbeFails(t)
    \/ \E t \in Threads : ClearCacheTools(t)
    \/ \E t \in Threads : ClearCacheStamp(t)
    \/ \E t \in Threads : CacheChecked(t)
    \/ \E t \in Threads : CacheRead(t)
    \/ \E t \in Threads : ListAnswered(t)
    \/ \E t \in Threads : StoreTool(t)
    \/ \E t \in Threads : UpdateCacheTools(t)
    \/ \E t \in Threads : UpdateCacheStamp(t)

SpecCache == InitCache /\ [][NextCache]_vars

\* ------------------------------- claims, the cached path of two threads
\* a discover_tools call has returned the cached list of "A"
ReturnedFromCache == call.op = "cached"

\* C39: under concurrent discover_tools calls, a call that takes the cached
\* path for a healthy server returns the tool list stored by the last
\* successful discovery; it never returns an empty or missing list because
\* another thread evicted or replaced the entry between the validity check
\* and the read, and tools_cache and cache_timestamps always have the same
\* key set as seen by a reader.
C39_CachedPathIsStable ==
    /\ ReturnedFromCache =>
          /\ call.seen.cache # <<>>
          /\ call.seen.cache \in {call.checked.cache, GetToolsFromCache(tools_cache, "A")}
    /\ DOMAIN tools_cache = DOMAIN cache_timestamps

\* the cached path never returns an empty list for an entry that passed
\* the validity check
C39_CachedListNotEmpty ==
    ReturnedFromCache => call.seen.cache # <<>>

\* the two maps of the cache have the same keys
C39_SameKeys == DOMAIN tools_cache = DOMAIN cache_timestamps

\* a cached list was returned while the other thread was inside a discovery
C39_Witness ==
    ReturnedFromCache /\ call.seen.cache # <<>> /\ call.writer.at # "idle"

\* ------------------------------------------- claims, a bootstrap that fails
\* check_server_health ran a bootstrap and returned its flag, which was False
BootstrapFailedInProbe ==
    /\ call.op = "health"
    /\ call.server \in DOMAIN servers
    /\ Sent("initialize") \cup Sent("GET") # {}
    /\ ~call.ok

\* a name or description that `not value` finds empty
IsEmpty(value) == value \in {None, ""}

\* name and description are what they were, the defaults where they were empty
OnlyEmptyFieldsFilled(before, after) ==
    /\ after.name = IF IsEmpty(before.name) THEN before.id ELSE before.name
    /\ after.description = IF IsEmpty(before.description)
                           THEN DefaultDescription(before.id) ELSE before.description

\* C40: a failed bootstrap attempt (_init_server_session or
\* _init_sse_server_session returning false) leaves the server's session_id,
\* its sse message endpoint and any previously learned name and description
\* unchanged; it only fills name and description when they were empty.
C40_FailedBootstrapKeepsSession ==
    BootstrapFailedInProbe =>
        /\ servers[call.server].session_id = call.pre.servers[call.server].session_id
        /\ servers[call.server].sse_endpoint = call.pre.servers[call.server].sse_endpoint
        /\ OnlyEmptyFieldsFilled(call.pre.servers[call.server], servers[call.server])

\* the part of C40 that holds: name and description always, and session_id
\* and endpoint whenever the failure is not an exception raised after the
\* session id of the reply was stored
C40_FailedBootstrapKeepsSessionUnlessRaisedLate ==
    BootstrapFailedInProbe =>
        /\ OnlyEmptyFieldsFilled(call.pre.servers[call.server], servers[call.server])
        /\ servers[call.server].sse_endpoint = call.pre.servers[call.server].sse_endpoint
        /\ up.reply.kind # "null_result" =>
              servers[call.server].session_id
                  = call.pre.servers[call.server].session_id

\* a failed bootstrap of a server that had learned its name from serverInfo
C40_Witness ==
    /\ BootstrapFailedInProbe
    /\ call.pre.servers[call.server].session_id # None
    /\ call.pre.servers[call.server].name \notin {None, "", call.server}

====
